---------------------------- MODULE Spec2Model ----------------------------
(***************************************************************************)
(* Deep Research to Kindle (drk.mjs): the pipeline orchestrator `main`,    *)
(* the completion poller `pollForCompletion` and the selector cascades of  *)
(* `confirmResearchStart`, `exportToGoogleDocs` and `downloadEpubFromDocs`.*)
(*                                                                         *)
(* Time is in milliseconds, as in the source.  The clock `now` models      *)
(* Date.now() read relative to the instant the running stage function took *)
(* its own `startTime = Date.now()`: the code only ever compares clock     *)
(* readings against that reading.  The remote surface is simulated: a      *)
(* probe (page.evaluate, isVisible) answers at once and time passes only   *)
(* in the sleeps the code performs.  The browser session is assumed to     *)
(* stay alive, so page.waitForTimeout and sleep never throw.               *)
(***************************************************************************)
EXTENDS Integers, Sequences, FiniteSets, TLC

(* ------------------------------ constants ------------------------------ *)

POLL_INTERVAL_MS == 30000
MAX_POLL_TIME_MS == 15 * 60000
PHASE1_WINDOW_MS == 120000
PHASE1_SLEEP_MS == 5000
MIN_WAIT_MS == 60000
SETTLE_DELAY_MS == 5000
DWELL_SLEEP_MS == 10000
\* legacy variants: the least trimmed length main accepts, the length above
\* which text found in the DOM is taken, the length above which the clipboard
\* is taken
MIN_CONTENT_LENGTH == 100
DOM_MIN_LENGTH == 200
CLIPBOARD_MIN_LENGTH == 100

REPORT_MIN_LENGTH == 500
CONFIRM_MAX_WAIT_MS == 60000
CONFIRM_RETRY_MS == 2000
CONFIRM_SETTLE_MS == 5000
EXPORT_MAX_WAIT_MS == 30000
EXPORT_RETRY_MS == 2000

\* possibleButtons of confirmResearchStart, by rank
possibleButtons ==
    << "Iniciar investigacao", "Start investigation", "Iniciar pesquisa",
       "Start research", "Looks good", "Confirmar" >>

\* rank of the loose 'button:has-text("Iniciar"|"Start")' probe, tried after the list
LooseRank == Len(possibleButtons) + 1

\* downloadSelectors of downloadEpubFromDocs, by rank
downloadSelectors ==
    << ":scope [id*=download]", ":scope .goog-menuitem:has-text(download)" >>

\* rank of the text-based match getByText(/Fazer download|Baixar|Download/i)
TextRank == Len(downloadSelectors) + 1

(* --------------------------- simulated feed ---------------------------- *)

\* The instant (feed time) at which the ramp feed turns to "completed".
RampAt == 90000

\* Spacing of the sampled alignments of the poller against the ramp feed.
OffsetStep == 5000

\* Feed time at which the poller is entered: the sampled alignments of the
\* polling cycle against the feed, from the feed's start up to the instant it
\* turns to "completed", and the edges of the first poll interval.
FeedOffsets ==
    { k * OffsetStep : k \in 0 .. (RampAt \div OffsetStep) }
        \cup { 1, POLL_INTERVAL_MS - 1, RampAt - 1, RampAt }

\* Texts the status chip may show ("" : no chip, or page.evaluate failed).
InProgressText == "Pesquisando"
DoneText == "Concluido"
StatusTexts == { "", InProgressText, DoneText, "Completed" }

\* Trimmed text lengths of the result container (0: none, or evaluate failed).
ReportLengths == { 0, REPORT_MIN_LENGTH, REPORT_MIN_LENGTH + 1 }

\* The scripted feed: what successive reads of the status chip return, the
\* last text staying on.
Script == << "", InProgressText, DoneText >>

FeedKinds == { "any", "ramp", "silent", "script" }

\* Probes evaluated in a row against a page that does not change.
MaxProbes == 2

\* White space around a padded sample text.
PadWidth == 2

\* Modification times of the files of a scanned directory: 0 .. MaxMtime.
MaxMtime == 2

\* Settle waits of confirmResearchStart that may be rejected in one run.
MaxSettleFailures == 1

VARIABLES
    mode,          \* "full" | "sendOnly"              (argv: --send-only)
    skipKindle,    \* argv: --no-kindle
    pc,            \* position of main
    stageLog,      \* stages entered so far, in order
    exitCode,      \* -1 while the process runs, then its exit status
    launched,      \* launchPersistentContext returned a context
    closeCalls,    \* number of context.close() calls
    modelSet,      \* "none" | "selected" | "default": what selectModel left
    acts,          \* how often the query was submitted, the export control
                   \* clicked and the send control clicked
    err,           \* the error travelling to main's catch
    now,           \* Date.now() relative to the running stage's startTime
    feedKind,      \* the simulated feed the poller runs against
    feedOffset,    \* feed time at which pollForCompletion was entered
    feedIdx,       \* reads of the status chip served by the scripted feed
    phase,         \* PollState.phase
    phaseTrail,    \* the phases the poller has been in, in order
    researchStarted,
    minWaitUntil,
    startedAt,     \* clock reading on entering Started          (-1: not yet)
    detectedAt,    \* clock reading of the detecting cycle       (-1: not yet)
    doneBy,        \* "none" | "status" | "length"
    returnedAt,    \* clock reading when the poller returned     (-1: not yet)
    pollResult,    \* "none" | "true" | "false"
    cycle,         \* what the last cycle of phase 2 met and read
    sighting,      \* what the last cycle of phase 1 read
    casc,          \* cascade being run: "none" | "confirm" | "download"
    ci,            \* rank of the next candidate of the cascade
    evalLog,       \* candidates evaluated in the current pass of the cascade
    confirmClicks, \* successful clicks on a confirmation control
    sig,           \* export signals observed: [tab, link, toast]
    docsPage,      \* the export target held by exportToGoogleDocs / main
    docsClosed,    \* docsPage.close() was called by main
    resolvedAt,    \* clock reading when docsPage was assigned   (-1: not yet)
    downloads,     \* the .epub files of DOWNLOADS_DIR as of its last access,
                   \* by the run or by another program ({ } before the first)
    epubPath,      \* main's epubPath: the file name handed on ("none": unset)
    delivery,      \* "none" | "confirmed" | "unconfirmed": after the send click
    modelArg,      \* the value given to --model (Absent: the option is missing)
    model,         \* main's `model`: what resolveModel(modelArg) returned
    remote,        \* the remote page, as far as the poller's probes read it
    probed,        \* results of the probes evaluated since the page changed
    chipText,      \* a status text as the chip shows it, character by character
    doneTest,      \* what the done pattern said of chipText ("untested": not yet)
    scanDir,       \* DOWNLOADS_DIR as findRecentEpub finds it
    afterTime,     \* the afterTime handed to findRecentEpub
    recentEpub,    \* what findRecentEpub(afterTime) returned, and how the scan went
    wait,          \* one click that causes an event, and the wait for that event
    argv,          \* the command line of main, and the branch main took on it
    legacy,        \* a run of a legacy variant, from extraction to e-mail
    deepResearch   \* how enableDeepResearch went ("none": not run, or run long ago)

vars ==
    << mode, skipKindle, pc, stageLog, exitCode, launched, closeCalls, modelSet,
       acts, err,
       now, feedKind, feedOffset, feedIdx, phase, phaseTrail, researchStarted,
       minWaitUntil,
       startedAt, detectedAt, doneBy, returnedAt, pollResult, cycle, sighting, casc,
       ci, evalLog, confirmClicks, sig, docsPage, docsClosed,
       resolvedAt, downloads, epubPath, delivery, modelArg,
       model, remote, probed, chipText, doneTest, scanDir, afterTime, recentEpub, wait,
       argv, legacy, deepResearch >>

argVars == << mode, skipKindle >>
mainVars ==
    << mode, skipKindle, exitCode, launched, closeCalls, modelSet, acts >>
feedVars == << feedKind, feedOffset, feedIdx >>
pollVars ==
    << phase, researchStarted, minWaitUntil, startedAt, detectedAt, doneBy,
       returnedAt, pollResult, cycle, phaseTrail, sighting >>
cascVars == << casc, ci, evalLog, confirmClicks >>
exportVars == << sig, docsPage, docsClosed, resolvedAt >>
deliverVars == << downloads, epubPath, delivery >>
resolveVars == << modelArg, model >>
probeVars == << remote, probed >>
sideVars ==
    << chipText, doneTest, scanDir, afterTime, recentEpub, wait, argv, legacy >>
runVars ==
    << pc, stageLog, err, now, mainVars, feedVars, pollVars, cascVars,
       exportVars, deliverVars, deepResearch >>

NoErr == [kind |-> "none", stage |-> "none", step |-> "none"]
NoSig == [tab |-> FALSE, link |-> FALSE, toast |-> FALSE]

\* No cycle of phase 2 has run.  Otherwise `cycle` holds the chip status the
\* cycle read, whether it went on to read the result container's length, and
\* whether the page at that moment showed both a done status and a container
\* longer than the length rule asks for.
NoActs == [submit |-> 0, export |-> 0, send |-> 0]
NoSighting == [status |-> "none", indicator |-> FALSE, indicatorRead |-> FALSE]
NoCycle == [status |-> "none", lenRead |-> FALSE, both |-> FALSE, len |-> -1]

(* --------------------------- resolveModel ------------------------------- *)

\* A value that resolveModel may return: one of MODELS, or something the
\* lookup found that is not a model.
Value(kind, name) == [kind |-> kind, name |-> name]

\* const MODELS = [...], by geminiName
MODELS ==
    << Value("model", "Rapido"), Value("model", "Raciocinio"),
       Value("model", "Pro") >>

\* const DEFAULT_MODEL = MODELS[1], zero-based
DEFAULT_MODEL == MODELS[2]

\* The own properties of the `aliases` object literal: key -> index in MODELS.
aliases ==
    [k \in { "1", "flash", "rapido", "2", "thinking", "raciocinio", "3", "pro" }
       |-> CASE k \in { "1", "flash", "rapido" } -> 1
             [] k \in { "2", "thinking", "raciocinio" } -> 2
             [] OTHER -> 3]

\* Property names an object literal inherits from Object.prototype; each is
\* bound to a function or an object, which `||` takes as true.
ObjectPrototypeKeys ==
    { "constructor", "__proto__", "toString", "valueOf", "hasOwnProperty",
      "isPrototypeOf", "toLocaleString", "propertyIsEnumerable" }

\* The words --model is tried with, written here in lower case.
ModelWords ==
    DOMAIN aliases \cup
        { "constructor", "__proto__", "tostring", "valueof", "hasownproperty",
          "gemini", "ultra", "4", "0" }

\* An argument string: a word in one of three casings.  Absent stands for
\* `undefined`, the option not being given.
Casings == { "lower", "UPPER", "Title" }
Absent == [lower |-> "", casing |-> "absent"]
ModelArgs == { [lower |-> w, casing |-> c] : w \in ModelWords, c \in Casings }

\* modelArg.toLowerCase()
ToLowerCase(arg) == arg.lower

\* aliases[lower]: own property first, then the prototype chain, else
\* undefined.
AliasLookup(lower) ==
    IF lower \in DOMAIN aliases THEN MODELS[aliases[lower]]
    ELSE IF lower \in ObjectPrototypeKeys THEN Value("inherited", lower)
    ELSE Value("undefined", "")

\* function resolveModel(modelArg)
resolveModel(arg) ==
    IF arg = Absent THEN DEFAULT_MODEL
    ELSE LET found == AliasLookup(ToLowerCase(arg))
         IN  IF found.kind = "undefined" THEN DEFAULT_MODEL ELSE found

\* main's `model` before resolveModel has run.
Unresolved == Value("unresolved", "")

\* The state of main before its first stage, whatever --model was given.
\* A DOM element as a probe meets it: there or not, its text as it reads once
\* trimmed, and whether the raw innerText carries surrounding white space.
Element(present, text, padded) ==
    [present |-> present, text |-> text, padded |-> padded]

\* The status chip: deep-research-entry-chip-content
Chips ==
    { Element(FALSE, "", FALSE) } \cup
        { Element(TRUE, s, p) : s \in StatusTexts, p \in BOOLEAN }

\* The result container, .container[scrollable="true"]: the length of its
\* trimmed text, and the white space around it.
Containers ==
    { [present |-> FALSE, length |-> 0, padding |-> 0] } \cup
        { [present |-> TRUE, length |-> n, padding |-> k] :
            n \in ReportLengths, k \in { 0, 2 } }

\* The page as the probes of pollForCompletion can tell it apart.
Remotes ==
    { [chip |-> c, indicator |-> i, container |-> r] :
        c \in Chips, i \in BOOLEAN, r \in Containers }

\* The page before any research runs on it.
BlankRemote ==
    [chip |-> Element(FALSE, "", FALSE), indicator |-> FALSE,
     container |-> [present |-> FALSE, length |-> 0, padding |-> 0]]

(* --------------- the done pattern, /Conclu[íi]do|Completed/i ------------ *)

\* Letters whose case the sampled texts vary, as << lower, upper >>.
CasePairs ==
    { << "a", "A" >>, << "c", "C" >>, << "d", "D" >>, << "e", "E" >>,
      << "g", "G" >>, << "h", "H" >>, << "i", "I" >>, << "í", "Í" >>,
      << "l", "L" >>, << "m", "M" >>, << "n", "N" >>, << "o", "O" >>,
      << "p", "P" >>, << "q", "Q" >>, << "r", "R" >>, << "s", "S" >>,
      << "t", "T" >>, << "u", "U" >>, << "ã", "Ã" >> }

ToLowerChar(c) ==
    IF \E p \in CasePairs : p[2] = c
      THEN (CHOOSE p \in CasePairs : p[2] = c)[1]
      ELSE c

ToUpperChar(c) ==
    IF \E p \in CasePairs : p[1] = c
      THEN (CHOOSE p \in CasePairs : p[1] = c)[2]
      ELSE c

\* The two alternatives of the pattern, one set of letters per position; the
\* i flag makes every position match either case.
DonePatterns ==
    { << {"c"}, {"o"}, {"n"}, {"c"}, {"l"}, {"u"}, {"í", "i"}, {"d"}, {"o"} >>,
      << {"c"}, {"o"}, {"m"}, {"p"}, {"l"}, {"e"}, {"t"}, {"e"}, {"d"} >> }

\* The pattern alternative pat matches text at position k.
MatchesAt(text, pat, k) ==
    /\ k + Len(pat) - 1 <= Len(text)
    /\ \A j \in 1 .. Len(pat) : ToLowerChar(text[k + j - 1]) \in pat[j]

\* /Conclu[íi]do|Completed/i.test(chipStatus): the pattern is not anchored,
\* so it matches anywhere in the text.
RegexTest(text) ==
    \E pat \in DonePatterns, k \in 1 .. Len(text) : MatchesAt(text, pat, k)

\* Sampled status texts: a word, what stands before it, and its letter case.
SampleWords ==
    [concluido_acute |-> << "c", "o", "n", "c", "l", "u", "í", "d", "o" >>,
     concluido |-> << "c", "o", "n", "c", "l", "u", "i", "d", "o" >>,
     completed |-> << "c", "o", "m", "p", "l", "e", "t", "e", "d" >>,
     pesquisando |-> << "p", "e", "s", "q", "u", "i", "s", "a", "n", "d", "o" >>,
     researching |-> << "r", "e", "s", "e", "a", "r", "c", "h", "i", "n", "g" >>]

SamplePrefixes ==
    [none |-> << >>,
     nao |-> << "n", "ã", "o", " " >>,
     not |-> << "n", "o", "t", " " >>,
     un |-> << "u", "n" >>]

SampleCasings == { "lower", "upper", "capitalised" }

Cased(text, casing) ==
    [k \in 1 .. Len(text) |->
        IF casing = "upper" \/ (casing = "capitalised" /\ k = 1)
          THEN ToUpperChar(text[k]) ELSE text[k]]

StatusSamples ==
    { [prefix |-> p, word |-> w, casing |-> c] :
        p \in DOMAIN SamplePrefixes, w \in DOMAIN SampleWords,
        c \in SampleCasings }

\* chip.innerText.trim() of a sample
TextOf(sample) ==
    Cased(SamplePrefixes[sample.prefix] \o SampleWords[sample.word],
          sample.casing)

\* The sample says that the research is completed: one of the synonyms,
\* standing alone.
MeansCompleted(sample) ==
    /\ sample.prefix = "none"
    /\ sample.word \in { "concluido_acute", "concluido", "completed" }

NoSample == [prefix |-> "none", word |-> "none", casing |-> "none"]

\* A click and the wait for the event it causes.
\*   site:     which of the three, by the event waited for
\*   at:       "start" | "armed" | "clickIssued" | "clickDone" | "clickFailed"
\*             | "awaiting" | "resolved" | "timedOut"
\*   armed:    waitForEvent has been called, its listener is registered
\*   firedAt:  where the program stood when the event fired ("never": not yet)
\*   observed: the event fired while the listener was registered
Wait(site, at, armed, firedAt, observed) ==
    [site |-> site, at |-> at, armed |-> armed, firedAt |-> firedAt,
     observed |-> observed]

NoWait == Wait("none", "start", FALSE, "never", FALSE)

\* The three places: docsPage.waitForEvent("download") and the EPUB option,
\* page.waitForEvent("filechooser") and the upload button,
\* context.waitForEvent("page") and the open-document button.
WaitSites == { "download", "filechooser", "page" }

\* A command line: the flags among process.argv and the arguments that do not
\* start with "--", joined, as a sequence of pieces of text; route is the
\* branch main took ("unparsed": main has not looked yet).
Argv(flags, query, route) == [flags |-> flags, query |-> query, route |-> route]

NoArgv == Argv({ }, << >>, "unparsed")

Flags == { "--login-only", "--send-only", "--no-kindle" }

\* Sampled positional arguments: none, a research URL, a document URL, a URL
\* with the host in capitals, a plain question, a sentence naming the host.
QuerySamples ==
    { << >>,
      << "https://", "gemini.google.com", "/app/1de4d1cd9d823b42" >>,
      << "https://", "docs.google.com", "/document/d/1" >>,
      << "https://", "GEMINI.GOOGLE.COM", "/app/1de4d1cd9d823b42" >>,
      << "what", " ", "is", " ", "CRISPR" >>,
      << "see", " ", "gemini.google.com" >> }

\* String.prototype.includes, over texts cut into pieces
Includes(text, piece) == \E k \in 1 .. Len(text) : text[k] = piece

\* A text: the number of its characters, and how many of them are white space
\* at its ends.
Text(raw, pad) == [raw |-> raw, pad |-> pad]

\* No text: the empty string, or nothing returned.
NoText == Text(0, 0)

\* text.trim().length
TrimLen(t) == t.raw - t.pad

\* text.trim()
Trim(t) == Text(t.raw - t.pad, 0)

\* A run of a legacy variant.
\*   variant: "v1" (drk-v1.mjs) | "DRK2" (DRK2/drk.mjs) | "test" (test-kindle.mjs)
\*   dom:     the text the DOM strategies end at
\*   clip:    what the clipboard holds after the copy button; copy: is there one
\*   at:      "extract" | "check" | "save" | "send" | "done"
\*   content: the extracted research content (NoText before extraction)
\*   exit:    the status the process ended with (-1: still running)
NoLegacy ==
    [variant |-> "none", dom |-> NoText, clip |-> NoText, copy |-> FALSE,
     at |-> "extract", content |-> NoText, written |-> FALSE, sent |-> FALSE,
     exit |-> -1]

LegacyVariants == { "v1", "DRK2", "test" }

\* Sampled texts: lengths around the three thresholds, bare or padded.
SampleTexts ==
    { Text(n + p, p) :
        n \in { 0, MIN_CONTENT_LENGTH - 1, MIN_CONTENT_LENGTH,
                MIN_CONTENT_LENGTH + 1, DOM_MIN_LENGTH, DOM_MIN_LENGTH + 1 },
        p \in { 0, PadWidth } }

\* The variables of the side specifications, at rest.
SideIdle ==
    /\ chipText = NoSample
    /\ doneTest = "untested"
    /\ scanDir = { }
    /\ afterTime = 0
    /\ recentEpub = [scan |-> "none", file |-> [name |-> "null", mtime |-> -1, by |-> "none"]]
    /\ wait = NoWait
    /\ argv = NoArgv
    /\ legacy = NoLegacy

RunInit ==
    /\ deepResearch = "none"
    /\ mode \in { "full", "sendOnly" }
    /\ skipKindle \in BOOLEAN
    /\ pc = "launch"
    /\ stageLog = << >>
    /\ exitCode = -1
    /\ launched = FALSE
    /\ closeCalls = 0
    /\ modelSet = "none"
    /\ acts = NoActs
    /\ err = NoErr
    /\ now = 0
    /\ feedKind = "any"
    /\ feedOffset = 0
    /\ feedIdx = 0
    /\ phase = "NotStarted"
    /\ phaseTrail = << >>
    /\ researchStarted = FALSE
    /\ minWaitUntil = 0
    /\ startedAt = -1
    /\ detectedAt = -1
    /\ doneBy = "none"
    /\ returnedAt = -1
    /\ pollResult = "none"
    /\ cycle = NoCycle
    /\ sighting = NoSighting
    /\ casc = "none"
    /\ ci = 1
    /\ evalLog = << >>
    /\ confirmClicks = 0
    /\ sig = NoSig
    /\ docsPage = "none"
    /\ docsClosed = FALSE
    /\ resolvedAt = -1
    /\ downloads = { }
    /\ epubPath = "none"
    /\ delivery = "none"

\* A run without --model: main's `model` is the resolved default.
Init ==
    /\ RunInit
    /\ modelArg = Absent
    /\ model = resolveModel(Absent)
    /\ remote = BlankRemote
    /\ probed = << >>
    /\ SideIdle

(* ------------------------------- main ---------------------------------- *)

\* A stage function is entered: it is logged and its clock origin is taken.
Enter(stage) ==
    /\ stageLog' = Append(stageLog, stage)
    /\ now' = 0

\* Faulty variant of Throw: the stage that failed is run again.
ThrowRetries(kind, stage, step) ==
    /\ err' = [kind |-> kind, stage |-> stage, step |-> step]
    /\ pc' = stage

\* An await inside main's try block rejects: control goes to the catch clause.
\*   kind:  "TimeoutError" (Playwright's, from waitFor / goto / waitForEvent /
\*          click) | "Error" (a plain Error constructed by the code)
\*   stage: the stage function that threw; step: the place inside it
Throw(kind, stage, step) ==
    /\ err' = [kind |-> kind, stage |-> stage, step |-> step]
    /\ pc' = "catch"

\* const { context, page } = await launchBrowser(profilePath), outside the try:
\* a rejection here is an unhandled rejection of main() and ends the process.
LaunchBrowser ==
    /\ pc = "launch"
    /\ Enter("launch")
    /\ \E ok \in BOOLEAN :
         IF ok
           THEN /\ launched' = TRUE
                /\ pc' = IF mode = "sendOnly" THEN "openExisting" ELSE "navigate"
                /\ UNCHANGED << exitCode, err >>
           ELSE /\ launched' = FALSE
                /\ pc' = "done"
                /\ exitCode' = 1
                /\ err' = [kind |-> "Error", stage |-> "launch", step |-> "launch"]
    /\ UNCHANGED << mode, skipKindle, closeCalls, modelSet, acts >>
    /\ UNCHANGED << feedVars, pollVars, cascVars, exportVars >>
    /\ UNCHANGED deliverVars
    /\ UNCHANGED resolveVars
    /\ UNCHANGED probeVars
    /\ UNCHANGED sideVars
    /\ UNCHANGED deepResearch

\* send-only branch: page.goto(geminiUrl) and the fixed wait
OpenExisting ==
    /\ pc = "openExisting"
    /\ Enter("openExisting")
    /\ \E ok \in BOOLEAN :
         IF ok THEN pc' = "export" /\ UNCHANGED err
               ELSE Throw("TimeoutError", "openExisting", "goto")
    /\ UNCHANGED << mainVars, feedVars, pollVars, cascVars, exportVars >>
    /\ UNCHANGED deliverVars
    /\ UNCHANGED resolveVars
    /\ UNCHANGED probeVars
    /\ UNCHANGED sideVars
    /\ UNCHANGED deepResearch

\* navigateToGemini: page.goto may time out
NavigateToGemini ==
    /\ pc = "navigate"
    /\ Enter("navigate")
    /\ \E ok \in BOOLEAN :
         IF ok THEN pc' = "selectModel" /\ UNCHANGED err
               ELSE Throw("TimeoutError", "navigate", "goto")
    /\ UNCHANGED << mainVars, feedVars, pollVars, cascVars, exportVars >>
    /\ UNCHANGED deliverVars
    /\ UNCHANGED resolveVars
    /\ UNCHANGED probeVars
    /\ UNCHANGED sideVars
    /\ UNCHANGED deepResearch

\* What may happen inside selectModel: the model was selected, or the
\* dropdown (waitFor / click) or the model option (waitFor / click) rejected.
ModelOutcomes == { "selected", "menuFailed", "optionFailed" }

\* Faulty variant of SelectModel: the try/catch is missing, so a rejection
\* reaches main.
SelectModelUncaught ==
    /\ pc = "selectModel"
    /\ Enter("selectModel")
    /\ \E out \in ModelOutcomes :
         IF out = "selected"
           THEN /\ modelSet' = "selected"
                /\ pc' = "enableDeepResearch"
                /\ UNCHANGED err
           ELSE /\ modelSet' = "default"
                /\ Throw("TimeoutError", "selectModel", out)
    /\ UNCHANGED << argVars, exitCode, launched, closeCalls, acts >>
    /\ UNCHANGED << feedVars, pollVars, cascVars, exportVars >>
    /\ UNCHANGED deliverVars
    /\ UNCHANGED resolveVars
    /\ UNCHANGED probeVars
    /\ UNCHANGED sideVars
    /\ UNCHANGED deepResearch

\* selectModel: every failure is caught and logged inside the function
\* ("Continuando com modelo padrao..."), which then returns normally.
SelectModel ==
    /\ pc = "selectModel"
    /\ Enter("selectModel")
    /\ \E out \in ModelOutcomes :
         modelSet' = IF out = "selected" THEN "selected" ELSE "default"
    /\ pc' = "enableDeepResearch"
    /\ UNCHANGED << argVars, exitCode, launched, closeCalls, acts >>
    /\ UNCHANGED << err, feedVars, pollVars, cascVars, exportVars >>
    /\ UNCHANGED deliverVars
    /\ UNCHANGED resolveVars
    /\ UNCHANGED probeVars
    /\ UNCHANGED sideVars
    /\ UNCHANGED deepResearch

\* What may happen inside enableDeepResearch: the mode was enabled, or the
\* tools button (waitFor / click) or the Deep Research entry (waitFor / click)
\* rejected.
DeepResearchOutcomes == { "enabled", "toolsFailed", "entryFailed" }

\* Faulty variant of EnableDeepResearch: the try/catch is missing, so a
\* rejection reaches main.
EnableDeepResearchUncaught ==
    /\ pc = "enableDeepResearch"
    /\ Enter("enableDeepResearch")
    /\ \E out \in DeepResearchOutcomes :
         /\ deepResearch' = out
         /\ IF out = "enabled"
              THEN pc' = "submit" /\ UNCHANGED err
              ELSE Throw("TimeoutError", "enableDeepResearch", out)
    /\ UNCHANGED << mainVars, feedVars, pollVars, cascVars, exportVars >>
    /\ UNCHANGED deliverVars
    /\ UNCHANGED resolveVars
    /\ UNCHANGED probeVars
    /\ UNCHANGED sideVars

\* enableDeepResearch: every failure is caught and logged inside the function
\* ("Continuando pesquisa normal..."), which then returns normally.
EnableDeepResearch ==
    /\ pc = "enableDeepResearch"
    /\ Enter("enableDeepResearch")
    /\ pc' = "submit"
    /\ deepResearch' \in DeepResearchOutcomes
    /\ UNCHANGED << err, mainVars, feedVars, pollVars, cascVars, exportVars >>
    /\ UNCHANGED deliverVars
    /\ UNCHANGED resolveVars
    /\ UNCHANGED probeVars
    /\ UNCHANGED sideVars

\* submitQuery: input.waitFor / click / fill may reject; otherwise Enter is
\* pressed, once
SubmitQuery ==
    /\ pc = "submit"
    /\ Enter("submit")
    /\ \E ok \in BOOLEAN :
         IF ok THEN /\ pc' = "confirm"
                    /\ acts' = [acts EXCEPT !.submit = @ + 1]
                    /\ UNCHANGED err
               ELSE /\ Throw("TimeoutError", "submit", "input")
                    /\ UNCHANGED acts
    /\ UNCHANGED << argVars, exitCode, launched, closeCalls, modelSet >>
    /\ UNCHANGED << feedVars, pollVars, cascVars, exportVars >>
    /\ UNCHANGED deliverVars
    /\ UNCHANGED resolveVars
    /\ UNCHANGED probeVars
    /\ UNCHANGED sideVars
    /\ UNCHANGED deepResearch

(* ------------------------ confirmResearchStart ------------------------- *)

\* One evaluated candidate: its rank, what the probe found and what was done.
\*   probe: "hidden" | "throws" | "match" | "noText" (loose button, other text)
\*   act:   "none" | "clicked" | "failed"
Entry(rank, probe, act) == [rank |-> rank, probe |-> probe, act |-> act]

\* The log of the current pass: a pass starts over at rank 1.
Logged(e) == IF e.rank = 1 THEN << e >> ELSE Append(evalLog, e)

\* Outcomes of probing and acting on one candidate.
ProbeOutcomes ==
    { Entry(ci, "hidden", "none"), Entry(ci, "throws", "none"),
      Entry(ci, "match", "clicked"), Entry(ci, "match", "failed") }

\* for (const label of possibleButtons): `await btn.click()` is followed by
\* `return`; anything thrown inside the try block ends the pass.
ConfirmReturns(e) == e.act = "clicked"
ConfirmPassEnds(e) == e.probe = "throws" \/ e.act = "failed"

ConfirmEnter ==
    /\ pc = "confirm"
    /\ Enter("confirm")
    /\ pc' = "confirmLoop"
    /\ casc' = "confirm"
    /\ ci' = 1
    /\ evalLog' = << >>
    /\ UNCHANGED << err, confirmClicks, mainVars, feedVars, pollVars, exportVars >>
    /\ UNCHANGED deliverVars
    /\ UNCHANGED resolveVars
    /\ UNCHANGED probeVars
    /\ UNCHANGED sideVars
    /\ UNCHANGED deepResearch

\* One step of the pass: the candidate of rank ci (a listed label, or the
\* loose button after the list) is probed and, if visible, clicked.
ConfirmStep(e) ==
    /\ evalLog' = Logged(e)
    /\ IF ConfirmReturns(e)
         THEN /\ confirmClicks' = confirmClicks + 1
              /\ now' = now + CONFIRM_SETTLE_MS
              /\ pc' = "poll"
              /\ ci' = ci
         ELSE IF ConfirmPassEnds(e) \/ e.rank = LooseRank
         THEN /\ now' = now + CONFIRM_RETRY_MS
              /\ ci' = 1
              /\ UNCHANGED << pc, confirmClicks >>
         ELSE /\ ci' = ci + 1
              /\ UNCHANGED << pc, now, confirmClicks >>

\* while (Date.now() - startTime < maxWait), tested when a pass begins
ConfirmProbe ==
    /\ pc = "confirmLoop"
    /\ ci <= Len(possibleButtons)
    /\ ci = 1 => now < CONFIRM_MAX_WAIT_MS
    /\ \E e \in ProbeOutcomes : ConfirmStep(e)
    /\ UNCHANGED << stageLog, err, casc, mainVars, feedVars, pollVars, exportVars >>
    /\ UNCHANGED deliverVars
    /\ UNCHANGED resolveVars
    /\ UNCHANGED probeVars
    /\ UNCHANGED sideVars
    /\ UNCHANGED deepResearch

\* the loose button: visible, then innerText must include investiga | pesquisa
ConfirmLoose ==
    /\ pc = "confirmLoop"
    /\ ci = LooseRank
    /\ \E e \in ProbeOutcomes \cup { Entry(ci, "noText", "none") } : ConfirmStep(e)
    /\ UNCHANGED << stageLog, err, casc, mainVars, feedVars, pollVars, exportVars >>
    /\ UNCHANGED deliverVars
    /\ UNCHANGED resolveVars
    /\ UNCHANGED probeVars
    /\ UNCHANGED sideVars
    /\ UNCHANGED deepResearch

\* Faulty variant of ConfirmGiveUp: with no confirmation seen the query is
\* submitted again.
ConfirmGiveUpResubmits ==
    /\ pc = "confirmLoop"
    /\ ci = 1
    /\ ~(now < CONFIRM_MAX_WAIT_MS)
    /\ pc' = "submit"
    /\ UNCHANGED << stageLog, err, now, cascVars, mainVars, feedVars, pollVars,
                    exportVars >>
    /\ UNCHANGED deliverVars
    /\ UNCHANGED resolveVars
    /\ UNCHANGED probeVars
    /\ UNCHANGED sideVars
    /\ UNCHANGED deepResearch

\* Faulty variant of ConfirmGiveUp: running out of time without a click is
\* raised to the caller.
ConfirmGiveUpThrows ==
    /\ pc = "confirmLoop"
    /\ ci = 1
    /\ ~(now < CONFIRM_MAX_WAIT_MS)
    /\ Throw("Error", "confirm", "giveUp")
    /\ UNCHANGED << stageLog, now, cascVars, mainVars, feedVars, pollVars,
                    exportVars >>
    /\ UNCHANGED deliverVars
    /\ UNCHANGED resolveVars
    /\ UNCHANGED probeVars
    /\ UNCHANGED sideVars
    /\ UNCHANGED deepResearch

\* the loop ends after maxWait with no control clicked: logged, not raised
ConfirmGiveUp ==
    /\ pc = "confirmLoop"
    /\ ci = 1
    /\ ~(now < CONFIRM_MAX_WAIT_MS)
    /\ pc' = "poll"
    /\ UNCHANGED << stageLog, err, now, cascVars, mainVars, feedVars, pollVars,
                    exportVars >>
    /\ UNCHANGED deliverVars
    /\ UNCHANGED resolveVars
    /\ UNCHANGED probeVars
    /\ UNCHANGED sideVars
    /\ UNCHANGED deepResearch

(* ------------- confirmResearchStart, with waits that may reject -------- *)

\* As ConfirmStep, with the click and the wait that follows it taken apart:
\* `await btn.click()` has succeeded, `await page.waitForTimeout(5000)` and
\* the `return` are still to come.
ConfirmClickStep(e) ==
    IF ConfirmReturns(e)
      THEN /\ evalLog' = Logged(e)
           /\ confirmClicks' = confirmClicks + 1
           /\ pc' = "confirmSettle"
           /\ UNCHANGED << now, ci >>
      ELSE ConfirmStep(e)

ConfirmProbeClick ==
    /\ pc = "confirmLoop"
    /\ ci <= Len(possibleButtons)
    /\ ci = 1 => now < CONFIRM_MAX_WAIT_MS
    /\ \E e \in ProbeOutcomes : ConfirmClickStep(e)
    /\ UNCHANGED << stageLog, err, casc, mainVars, feedVars, pollVars, exportVars >>
    /\ UNCHANGED << deliverVars, resolveVars, probeVars, sideVars, deepResearch >>

ConfirmLooseClick ==
    /\ pc = "confirmLoop"
    /\ ci = LooseRank
    /\ \E e \in ProbeOutcomes \cup { Entry(ci, "noText", "none") } :
         ConfirmClickStep(e)
    /\ UNCHANGED << stageLog, err, casc, mainVars, feedVars, pollVars, exportVars >>
    /\ UNCHANGED << deliverVars, resolveVars, probeVars, sideVars, deepResearch >>

\* await page.waitForTimeout(5000); return;  -- inside the try block: when the
\* wait rejects, `catch { }` takes it and the `return` is never reached.
ConfirmSettle ==
    /\ pc = "confirmSettle"
    /\ \E ok \in BOOLEAN :
         IF ok THEN /\ now' = now + CONFIRM_SETTLE_MS
                    /\ pc' = "poll"
               ELSE /\ confirmClicks <= MaxSettleFailures
                    /\ pc' = "confirmRetry"
                    /\ now' = now
    /\ UNCHANGED << stageLog, err, cascVars, mainVars, feedVars, pollVars,
                    exportVars >>
    /\ UNCHANGED << deliverVars, resolveVars, probeVars, sideVars, deepResearch >>

\* catch { }  await page.waitForTimeout(2000);  -- outside the try block: the
\* loop goes on to its next pass, or the rejection leaves the function.
ConfirmRetryWait ==
    /\ pc = "confirmRetry"
    /\ \E ok \in BOOLEAN :
         IF ok THEN /\ now' = now + CONFIRM_RETRY_MS
                    /\ ci' = 1
                    /\ pc' = "confirmLoop"
                    /\ UNCHANGED err
               ELSE /\ Throw("Error", "confirm", "retryWait")
                    /\ UNCHANGED << now, ci >>
    /\ UNCHANGED << stageLog, casc, evalLog, confirmClicks, mainVars, feedVars,
                    pollVars, exportVars >>
    /\ UNCHANGED << deliverVars, resolveVars, probeVars, sideVars, deepResearch >>

\* The run from its start to the end of confirmResearchStart.
ConfirmNext ==
    \/ LaunchBrowser
    \/ NavigateToGemini
    \/ SelectModel
    \/ EnableDeepResearch
    \/ SubmitQuery
    \/ ConfirmEnter
    \/ ConfirmProbeClick
    \/ ConfirmLooseClick
    \/ ConfirmSettle
    \/ ConfirmRetryWait
    \/ ConfirmGiveUp

ConfirmSpec == Init /\ [][ConfirmNext]_vars

(* -------------------------- pollForCompletion -------------------------- *)

\* Faulty variant of IsDone: the pattern knows the English text only.
IsDoneEnglishOnly(s) == s = "Completed"

\* /Conclu[i]do|Completed/i.test(chipStatus), over the sampled status texts
IsDone(s) == s \in { DoneText, "Completed" }

\* What the probes can read at clock reading t under the simulated feed.
StatusReads(t) ==
    CASE feedKind = "ramp" ->
           IF feedOffset + t < RampAt THEN { InProgressText } ELSE { DoneText }
      [] feedKind = "silent" -> { "" }
      [] feedKind = "script" ->
           { Script[IF feedIdx < Len(Script) THEN feedIdx + 1 ELSE Len(Script)] }
      [] OTHER -> StatusTexts

\* The scripted feed has served one more read of the status chip.
StatusWasRead ==
    /\ feedIdx' = IF feedKind = "script" /\ feedIdx < Len(Script)
                    THEN feedIdx + 1 ELSE feedIdx
    /\ UNCHANGED << feedKind, feedOffset >>

IndicatorReads == IF feedKind = "silent" THEN { FALSE } ELSE BOOLEAN

LengthReads ==
    IF feedKind = "silent"
      THEN { n \in ReportLengths : n <= REPORT_MIN_LENGTH }
      ELSE ReportLengths

\* while (Date.now() < phase1Deadline), with startTime as the clock's origin
InDiscoveryWindow(t) == t < PHASE1_WINDOW_MS

\* Faulty variant of WithinCeiling: the ceiling test off by one comparison.
WithinCeilingInclusive(t) == t <= MAX_POLL_TIME_MS

\* while (Date.now() - startTime < MAX_POLL_TIME_MS)
WithinCeiling(t) == t < MAX_POLL_TIME_MS

\* Faulty variant of BeforeMinWait: the dwell test dropped.
BeforeMinWaitDropped(t) == FALSE

\* if (Date.now() < minWaitUntil)
BeforeMinWait(t) == t < minWaitUntil

\* Faulty variant of LengthComplete: the threshold itself completes.
LengthCompleteInclusive(n) == n >= REPORT_MIN_LENGTH

\* if (reportLength > 500)
LengthComplete(n) == n > REPORT_MIN_LENGTH

\* Faulty variant of AfterSettle: the settle sleep left out.
AfterSettleSkipped(t) == t

\* Faulty variant of AfterPollSleep: the loop sleeps two poll intervals.
AfterPollSleepTwice(t) == t + POLL_INTERVAL_MS + POLL_INTERVAL_MS

\* the sleeps of the loop, as the clock reading after them
AfterSettle(t) == t + SETTLE_DELAY_MS
AfterPollSleep(t) == t + POLL_INTERVAL_MS
AfterDwellSleep(t) == t + DWELL_SLEEP_MS

\* Faulty variant of Sighted: only the chip status counts as a signal.
SightedStatusOnly(chipStatus, indicator) == chipStatus # ""

\* if (chipStatus) { ... break }  if (await indicators.isVisible()) { ... break }
\* The indicator is probed only when the status read was empty.
Sighted(chipStatus, indicator) == chipStatus # "" \/ indicator

\* const startTime = Date.now(); researchStarted = false; phase1Deadline
\* The locals of confirmResearchStart are gone, and the feed the poller will
\* observe is fixed: any feed, the ramp at some alignment, or the silent one.
PollEnter ==
    /\ pc = "poll"
    /\ Enter("poll")
    /\ pc' = "phase1"
    /\ phase' = "NotStarted"
    /\ phaseTrail' = << "NotStarted" >>
    /\ researchStarted' = FALSE
    /\ feedKind' \in FeedKinds
    /\ feedIdx' = 0
    /\ feedOffset' \in (IF feedKind' = "ramp" THEN FeedOffsets ELSE { 0 })
    /\ casc' = "none"
    /\ ci' = 1
    /\ evalLog' = << >>
    /\ UNCHANGED << minWaitUntil, startedAt, detectedAt, doneBy, returnedAt,
                    pollResult, cycle >>
    /\ UNCHANGED << err, confirmClicks, mainVars, exportVars >>
    /\ UNCHANGED deliverVars
    /\ UNCHANGED resolveVars
    /\ UNCHANGED probeVars
    /\ UNCHANGED sideVars
    /\ deepResearch' = "none"
    /\ sighting' = NoSighting

\* One cycle of phase 1: the chip status is read first, then the activity
\* indicator; either ends the phase, otherwise the loop sleeps 5 s.  When the
\* discovery window has elapsed the loop is left with nothing observed.
Phase1Cycle ==
    /\ pc = "phase1"
    /\ IF InDiscoveryWindow(now)
         THEN \E chipStatus \in StatusReads(now), indicator \in IndicatorReads :
                /\ StatusWasRead
                /\ sighting' = [status |-> chipStatus,
                                indicator |-> chipStatus = "" /\ indicator,
                                indicatorRead |-> chipStatus = ""]
                /\ IF Sighted(chipStatus, indicator)
                     THEN /\ researchStarted' = TRUE
                          /\ pc' = "phase2init"
                          /\ now' = now
                     ELSE /\ now' = now + PHASE1_SLEEP_MS
                          /\ UNCHANGED << pc, researchStarted >>
         ELSE /\ pc' = "phase2init"
              /\ UNCHANGED << now, researchStarted, feedVars, sighting >>
    /\ UNCHANGED << phase, phaseTrail, minWaitUntil, startedAt, detectedAt,
                    doneBy, returnedAt, pollResult, cycle >>
    /\ UNCHANGED << stageLog, err, mainVars, cascVars, exportVars >>
    /\ UNCHANGED deliverVars
    /\ UNCHANGED resolveVars
    /\ UNCHANGED probeVars
    /\ UNCHANGED sideVars
    /\ UNCHANGED deepResearch

\* Faulty variant of Phase2Init: a discovery window that elapsed with nothing
\* observed ends the poller with false instead of starting phase 2.
Phase2InitGivesUp ==
    /\ pc = "phase2init"
    /\ IF researchStarted
         THEN /\ pc' = "phase2"
              /\ phase' = "Started"
              /\ phaseTrail' = Append(phaseTrail, "Started")
              /\ startedAt' = now
              /\ minWaitUntil' = now + MIN_WAIT_MS
              /\ UNCHANGED << returnedAt, pollResult >>
         ELSE /\ pc' = "export"
              /\ phase' = "TimedOut"
              /\ phaseTrail' = Append(phaseTrail, "TimedOut")
              /\ pollResult' = "false"
              /\ returnedAt' = now
              /\ UNCHANGED << startedAt, minWaitUntil >>
    /\ UNCHANGED << researchStarted, detectedAt, doneBy, cycle >>
    /\ UNCHANGED << stageLog, err, now, mainVars, feedVars, cascVars, exportVars >>
    /\ UNCHANGED deliverVars
    /\ UNCHANGED resolveVars
    /\ UNCHANGED probeVars
    /\ UNCHANGED sideVars
    /\ UNCHANGED deepResearch
    /\ sighting' = NoSighting

\* Faulty variant of Phase2Init: a status that already reads done when it is
\* first detected makes the poller return true straight from phase 1.
Phase2InitCompletes ==
    /\ pc = "phase2init"
    /\ IF IsDone(sighting.status)
         THEN /\ pc' = "export"
              /\ phase' = "Completed"
              /\ phaseTrail' = Append(phaseTrail, "Completed")
              /\ pollResult' = "true"
              /\ returnedAt' = now
              /\ detectedAt' = now
              /\ doneBy' = "status"
              /\ UNCHANGED << startedAt, minWaitUntil >>
         ELSE /\ pc' = "phase2"
              /\ phase' = "Started"
              /\ phaseTrail' = Append(phaseTrail, "Started")
              /\ startedAt' = now
              /\ minWaitUntil' = now + MIN_WAIT_MS
              /\ UNCHANGED << returnedAt, pollResult, detectedAt, doneBy >>
    /\ UNCHANGED << researchStarted, cycle >>
    /\ UNCHANGED << stageLog, err, now, mainVars, feedVars, cascVars, exportVars >>
    /\ UNCHANGED deliverVars
    /\ UNCHANGED resolveVars
    /\ UNCHANGED probeVars
    /\ UNCHANGED sideVars
    /\ UNCHANGED deepResearch
    /\ sighting' = NoSighting

\* Phase 2 begins: const minWaitUntil = Date.now() + 60_000
Phase2Init ==
    /\ pc = "phase2init"
    /\ pc' = "phase2"
    /\ phase' = "Started"
    /\ phaseTrail' = Append(phaseTrail, "Started")
    /\ startedAt' = now
    /\ minWaitUntil' = now + MIN_WAIT_MS
    /\ UNCHANGED << researchStarted, detectedAt, doneBy, returnedAt, pollResult,
                    cycle >>
    /\ UNCHANGED << stageLog, err, now, mainVars, feedVars, cascVars, exportVars >>
    /\ UNCHANGED deliverVars
    /\ UNCHANGED resolveVars
    /\ UNCHANGED probeVars
    /\ UNCHANGED sideVars
    /\ UNCHANGED deepResearch
    /\ sighting' = NoSighting

\* pollForCompletion returns: main awaits it and discards the value
\* (`await pollForCompletion(page);`), so the next stage is the export.
PollReturn(result, t) ==
    /\ pollResult' = result
    /\ returnedAt' = t
    /\ now' = t
    /\ pc' = "export"

\* Faulty variant of Phase2Branch: once the dwell is over the length rule is
\* applied before the chip status is tested.
Phase2BranchLengthFirst(chipStatus, t) ==
    IF ~BeforeMinWait(t) THEN "length"
    ELSE IF IsDone(chipStatus) THEN "done"
    ELSE IF chipStatus # "" THEN "busy"
    ELSE "dwell"

\* The tests a cycle of phase 2 makes on the chip status it has just read, in
\* the order of the code, up to the point where the container would be read:
\*   "done"   if (/Conclu[ii]do|Completed/i.test(chipStatus))
\*   "busy"   if (chipStatus)
\*   "dwell"  if (Date.now() < minWaitUntil)
\*   "length" otherwise: const reportLength = await page.evaluate(...)
Phase2Branch(chipStatus, t) ==
    IF IsDone(chipStatus) THEN "done"
    ELSE IF chipStatus # "" THEN "busy"
    ELSE IF BeforeMinWait(t) THEN "dwell"
    ELSE "length"

\* One cycle of phase 2.  reportLength is what the result container holds at
\* that moment; the cycle reads it only on the "length" branch.
Phase2Cycle ==
    /\ pc = "phase2"
    /\ IF WithinCeiling(now)
         THEN \E chipStatus \in StatusReads(now), reportLength \in LengthReads :
              LET branch == Phase2Branch(chipStatus, now) IN
                /\ StatusWasRead
                /\ cycle' = [status |-> chipStatus,
                             lenRead |-> branch = "length",
                             both |-> IsDone(chipStatus)
                                        /\ LengthComplete(reportLength),
                             len |-> reportLength]
                /\ IF branch = "done"
                     THEN /\ phase' = "Completed"
                          /\ detectedAt' = now
                          /\ doneBy' = "status"
                          /\ PollReturn("true", AfterSettle(now))
                   ELSE IF branch = "busy"
                     THEN /\ now' = AfterPollSleep(now)
                          /\ UNCHANGED << pc, phase, detectedAt, doneBy,
                                          returnedAt, pollResult >>
                   ELSE IF branch = "dwell"
                     THEN /\ now' = AfterDwellSleep(now)
                          /\ UNCHANGED << pc, phase, detectedAt, doneBy,
                                          returnedAt, pollResult >>
                   ELSE IF LengthComplete(reportLength)
                     THEN /\ phase' = "Completed"
                          /\ detectedAt' = now
                          /\ doneBy' = "length"
                          /\ PollReturn("true", now)
                     ELSE /\ now' = AfterPollSleep(now)
                          /\ UNCHANGED << pc, phase, detectedAt, doneBy,
                                          returnedAt, pollResult >>
                /\ phaseTrail' = IF phase' = phase THEN phaseTrail
                                                   ELSE Append(phaseTrail, phase')
         ELSE /\ phase' = "TimedOut"
              /\ phaseTrail' = Append(phaseTrail, "TimedOut")
              /\ PollReturn("false", now)
              /\ UNCHANGED << detectedAt, doneBy, cycle, feedVars >>
    /\ UNCHANGED << researchStarted, minWaitUntil, startedAt >>
    /\ UNCHANGED << stageLog, err, mainVars, cascVars, exportVars >>
    /\ UNCHANGED deliverVars
    /\ UNCHANGED resolveVars
    /\ UNCHANGED probeVars
    /\ UNCHANGED sideVars
    /\ UNCHANGED deepResearch
    /\ UNCHANGED sighting

(* -------------------------- exportToGoogleDocs ------------------------- *)

\* The export menu button and the export-to-docs button are waited for and
\* clicked; then `startTime = Date.now()` opens the 30 s wait for the surface.
\* The locals and clock readings of pollForCompletion are gone by now; what
\* outlives the poller is its phase and the value it returned.
ExportOpen ==
    /\ pc = "export"
    /\ Enter("export")
    /\ sig' = NoSig
    /\ \E ok \in BOOLEAN :
         IF ok THEN /\ pc' = "exportWait"
                    /\ acts' = [acts EXCEPT !.export = @ + 1]
                    /\ UNCHANGED err
               ELSE /\ Throw("TimeoutError", "export", "open")
                    /\ UNCHANGED acts
    /\ minWaitUntil' = 0
    /\ startedAt' = -1
    /\ detectedAt' = -1
    /\ returnedAt' = -1
    /\ cycle' = NoCycle
    /\ feedKind' = "any"
    /\ feedOffset' = 0
    /\ feedIdx' = 0
    /\ UNCHANGED << phase, phaseTrail, researchStarted, doneBy, pollResult >>
    /\ UNCHANGED << docsPage, docsClosed, resolvedAt, cascVars >>
    /\ UNCHANGED << argVars, exitCode, launched, closeCalls, modelSet >>
    /\ UNCHANGED deliverVars
    /\ UNCHANGED resolveVars
    /\ UNCHANGED probeVars
    /\ UNCHANGED sideVars
    /\ UNCHANGED deepResearch
    /\ UNCHANGED sighting

\* Faulty variant of ExportWithinBound: the bound test off by one comparison.
ExportWithinBoundInclusive(t) == t <= EXPORT_MAX_WAIT_MS

\* while (Date.now() - startTime < maxWait)
ExportWithinBound(t) == t < EXPORT_MAX_WAIT_MS

\* One cycle of the wait loop.  The session's pages are scanned for a document
\* URL; `if (docsPage) break` also leaves with a page kept from an earlier
\* cycle; then the inline link is probed: its page is created and assigned
\* before the navigation, and whatever the try block throws is ignored.
\*   link: "hidden" | "loaded" | "gotoFailed" | "attrFailed"
ExportCycle ==
    /\ pc = "exportWait"
    /\ IF ExportWithinBound(now)
         THEN \E tab \in BOOLEAN,
                 link \in { "hidden", "loaded", "gotoFailed", "attrFailed" } :
                IF tab
                  THEN /\ docsPage' = "tab"
                       /\ sig' = [sig EXCEPT !.tab = TRUE]
                       /\ pc' = "exportLoad"
                       /\ now' = now
                ELSE IF docsPage # "none"
                  THEN /\ pc' = "exportLoad"
                       /\ UNCHANGED << docsPage, sig, now >>
                ELSE IF link = "loaded"
                  THEN /\ docsPage' = "linkLoaded"
                       /\ sig' = [sig EXCEPT !.link = TRUE]
                       /\ pc' = "exportLoad"
                       /\ now' = now
                ELSE IF link = "gotoFailed"
                  THEN /\ docsPage' = "linkUnloaded"
                       /\ sig' = [sig EXCEPT !.link = TRUE]
                       /\ now' = now + EXPORT_RETRY_MS
                       /\ pc' = pc
                ELSE IF link = "attrFailed"
                  THEN /\ sig' = [sig EXCEPT !.link = TRUE]
                       /\ now' = now + EXPORT_RETRY_MS
                       /\ UNCHANGED << docsPage, pc >>
                  ELSE /\ now' = now + EXPORT_RETRY_MS
                       /\ UNCHANGED << docsPage, sig, pc >>
         ELSE /\ pc' = IF docsPage = "none" THEN "exportToast" ELSE "exportLoad"
              /\ UNCHANGED << docsPage, sig, now >>
    /\ resolvedAt' = IF docsPage' # docsPage THEN now ELSE resolvedAt
    /\ UNCHANGED << stageLog, err, docsClosed, mainVars, feedVars, pollVars,
                    cascVars >>
    /\ UNCHANGED deliverVars
    /\ UNCHANGED resolveVars
    /\ UNCHANGED probeVars
    /\ UNCHANGED sideVars
    /\ UNCHANGED deepResearch

\* Faulty variant of ToastFailed: the catch clause swallows the error.
ToastFailedSwallowed == pc' = "exportLoad" /\ UNCHANGED err

\* catch (err) { throw new Error(`Google Docs nao abriu apos exportacao: ...`) }
ToastFailed == Throw("Error", "export", "toast")

\* if (!docsPage): the "open document" toast is waited for (10 s) and clicked
\* while a new page is awaited (15 s).
\*   toast: "hidden" | "opened" | "noPage"
ExportToast ==
    /\ pc = "exportToast"
    /\ \E toast \in { "hidden", "opened", "noPage" } :
         IF toast = "opened"
           THEN /\ docsPage' = "toast"
                /\ sig' = [sig EXCEPT !.toast = TRUE]
                /\ pc' = "exportLoad"
                /\ UNCHANGED err
         ELSE IF toast = "noPage"
           THEN /\ sig' = [sig EXCEPT !.toast = TRUE]
                /\ ToastFailed
                /\ UNCHANGED docsPage
           ELSE /\ ToastFailed
                /\ UNCHANGED << docsPage, sig >>
    /\ resolvedAt' = IF docsPage' # docsPage THEN now ELSE resolvedAt
    /\ UNCHANGED << stageLog, now, docsClosed, mainVars, feedVars, pollVars,
                    cascVars >>
    /\ UNCHANGED deliverVars
    /\ UNCHANGED resolveVars
    /\ UNCHANGED probeVars
    /\ UNCHANGED sideVars
    /\ UNCHANGED deepResearch

\* await docsPage.waitForLoadState("domcontentloaded"); return docsPage
ExportLoad ==
    /\ pc = "exportLoad"
    /\ \E ok \in BOOLEAN :
         IF ok THEN pc' = "download" /\ UNCHANGED err
               ELSE Throw("TimeoutError", "export", "load")
    /\ UNCHANGED << stageLog, now, exportVars, mainVars, feedVars, pollVars,
                    cascVars >>
    /\ UNCHANGED deliverVars
    /\ UNCHANGED resolveVars
    /\ UNCHANGED probeVars
    /\ UNCHANGED sideVars
    /\ UNCHANGED deepResearch

(* ------- exportToGoogleDocs in a session that holds a document tab ----- *)

\* for (const p of pages) if (p.url().includes("docs.google.com/document")):
\* the scan goes over every page of the context, so a document tab that was
\* open in the session before the export button was clicked is found by the
\* first scan, ahead of anything the export opens.
ExportFindsOpenDoc ==
    /\ pc = "exportWait"
    /\ now = 0
    /\ docsPage = "none"
    /\ docsPage' = "openBefore"
    /\ resolvedAt' = now
    /\ pc' = "exportLoad"
    /\ UNCHANGED << stageLog, err, now, sig, docsClosed, mainVars, feedVars,
                    pollVars, cascVars >>
    /\ UNCHANGED << deliverVars, resolveVars, probeVars, sideVars, deepResearch >>

\* A send-only run up to the return of exportToGoogleDocs.
ExportNext ==
    \/ LaunchBrowser
    \/ OpenExisting
    \/ ExportOpen
    \/ ExportFindsOpenDoc
    \/ ExportCycle
    \/ ExportToast
    \/ ExportLoad

ExportSpec == Init /\ [][ExportNext]_vars

(* ------------------------- downloadEpubFromDocs ------------------------ *)

\* the File menu is waited for and clicked; the locals of exportToGoogleDocs
\* are gone, the page it returned is held by main
DownloadMenu ==
    /\ pc = "download"
    /\ Enter("download")
    /\ \E ok \in BOOLEAN :
         IF ok THEN /\ pc' = "downloadCascade"
                    /\ casc' = "download"
                    /\ ci' = 1
                    /\ evalLog' = << >>
                    /\ UNCHANGED err
               ELSE /\ Throw("TimeoutError", "download", "menu")
                    /\ UNCHANGED << casc, ci, evalLog >>
    /\ resolvedAt' = -1
    /\ UNCHANGED << sig, docsPage, docsClosed >>
    /\ UNCHANGED << confirmClicks, mainVars, feedVars, pollVars >>
    /\ UNCHANGED deliverVars
    /\ UNCHANGED resolveVars
    /\ UNCHANGED probeVars
    /\ UNCHANGED sideVars
    /\ UNCHANGED deepResearch

\* Faulty variant of SelectorBreaks: the `break` after the click left out.
SelectorBreaksMissing(e) == FALSE

\* for (const sel of downloadSelectors): `downloadClicked = true; break`
\* follows the click; the catch clause of the loop body goes on to the next
\* selector, and isVisible(...).catch(() => false) turns a throw into hidden.
SelectorBreaks(e) == e.act = "clicked"

DownloadSelector ==
    /\ pc = "downloadCascade"
    /\ ci <= Len(downloadSelectors)
    /\ \E e \in { x \in ProbeOutcomes : x.probe # "throws" } :
         /\ evalLog' = Logged(e)
         /\ IF SelectorBreaks(e)
              THEN pc' = "downloadEpub" /\ ci' = ci
              ELSE pc' = pc /\ ci' = ci + 1
    /\ UNCHANGED << stageLog, err, now, casc, confirmClicks, mainVars, feedVars,
                    pollVars, exportVars >>
    /\ UNCHANGED deliverVars
    /\ UNCHANGED resolveVars
    /\ UNCHANGED probeVars
    /\ UNCHANGED sideVars
    /\ UNCHANGED deepResearch

\* if (!downloadClicked): the text-based match is waited for (5 s) and
\* clicked, with no try around it.
DownloadText ==
    /\ pc = "downloadCascade"
    /\ ci = TextRank
    /\ \E e \in { x \in ProbeOutcomes : x.probe # "throws" } :
         /\ evalLog' = Logged(e)
         /\ IF e.act = "clicked"
              THEN pc' = "downloadEpub" /\ UNCHANGED err
              ELSE Throw("TimeoutError", "download", "cascade")
    /\ UNCHANGED << stageLog, now, casc, ci, confirmClicks, mainVars, feedVars,
                    pollVars, exportVars >>
    /\ UNCHANGED deliverVars
    /\ UNCHANGED resolveVars
    /\ UNCHANGED probeVars
    /\ UNCHANGED sideVars
    /\ UNCHANGED deepResearch

\* File names the download may suggest and other programs may use.
EpubNames == { "report.epub", "other.epub" }

\* A file of DOWNLOADS_DIR: its name, its mtime on a logical clock whose zero
\* is the start of downloadEpubFromDocs, and who wrote it last: "before" (it
\* was there, unmodified, from before the task), "run" (this run's saveAs) or
\* "other" (another program, meanwhile).
File(name, mtime, by) == [name |-> name, mtime |-> mtime, by |-> by]

\* What the directory may hold when the download is saved: any of the names,
\* last modified before the task started.
DirsAtSave ==
    { { File(n, -1, "before") : n \in S } : S \in SUBSET EpubNames }

\* The mtime a write gets: later than every mtime in the directory, and later
\* than the start of the stage.
NextMtime(dir) ==
    LET seen == { 0 } \cup { f.mtime : f \in dir }
    IN  1 + (CHOOSE m \in seen : \A k \in seen : k <= m)

\* A file is written under `name`, replacing a file of that name.
Written(dir, name, by) ==
    { f \in dir : f.name # name } \cup { File(name, NextMtime(dir), by) }

\* Faulty variant of SaveAs: a file already there under the suggested name is
\* left as it is.
SaveAsKeepsExisting(dir, name) ==
    IF \E f \in dir : f.name = name THEN dir ELSE Written(dir, name, "run")

\* await download.saveAs(resolve(DOWNLOADS_DIR, suggestedName))
SaveAs(dir, name) == Written(dir, name, "run")

\* The null that findRecentEpub returns when it finds nothing.
NullFile == File("null", -1, "none")

\* Names a directory may hold besides EpubNames: an upper-case extension,
\* another extension, and a dot file, which has no extension.
OtherNames == { "BOOK.EPUB", "notes.pdf", ".epub" }

\* path.extname(f), over the sampled names
extname(name) ==
    CASE name \in EpubNames -> ".epub"
      [] name = "BOOK.EPUB" -> ".EPUB"
      [] name = "notes.pdf" -> ".pdf"
      [] OTHER -> ""

\* String.prototype.toLowerCase, over the sampled extensions
LowerCase(s) ==
    CASE s = ".EPUB" -> ".epub"
      [] OTHER -> s

\* Faulty variant of findRecentEpub: a file modified exactly at afterTime
\* counts as recent.
findRecentEpubInclusive(dir, after) ==
    LET epubs == { f \in dir : LowerCase(extname(f.name)) = ".epub" }
        recent == { f \in epubs : f.mtime >= after }
    IN  IF recent = { } THEN NullFile
        ELSE CHOOSE f \in recent : \A g \in recent : g.mtime <= f.mtime

\* findRecentEpub(afterTime): the .epub files modified after afterTime, most
\* recent first; the first of them, or null.
findRecentEpub(dir, after) ==
    LET epubs == { f \in dir : LowerCase(extname(f.name)) = ".epub" }
        recent == { f \in epubs : f.mtime > after }
    IN  IF recent = { } THEN NullFile
        ELSE CHOOSE f \in recent : \A g \in recent : g.mtime <= f.mtime

\* the EPUB option, the download event (armed before the click) and saveAs
\* under the name the download suggests; the path saved to is returned
DownloadEpub ==
    /\ pc = "downloadEpub"
    /\ \E ok \in BOOLEAN, suggestedName \in EpubNames, dir \in DirsAtSave :
         IF ok THEN /\ pc' = "closeDocs"
                    /\ downloads' = SaveAs(dir, suggestedName)
                    /\ epubPath' = suggestedName
                    /\ UNCHANGED << err, delivery >>
               ELSE /\ Throw("TimeoutError", "download", "epub")
                    /\ UNCHANGED deliverVars
    /\ UNCHANGED << stageLog, now, mainVars, feedVars, pollVars, cascVars,
                    exportVars >>
    /\ UNCHANGED resolveVars
    /\ UNCHANGED probeVars
    /\ UNCHANGED sideVars
    /\ UNCHANGED deepResearch

\* Meanwhile another program saves an .epub of its own into DOWNLOADS_DIR,
\* under a name of its own.
OtherProgramSaves ==
    /\ pc = "closeDocs"
    /\ ~\E f \in downloads : f.by = "other"
    /\ \E name \in EpubNames \ { epubPath } :
         downloads' = Written(downloads, name, "other")
    /\ UNCHANGED << epubPath, delivery, pc, stageLog, err, now, mainVars, feedVars,
                    pollVars, cascVars, exportVars >>
    /\ UNCHANGED resolveVars
    /\ UNCHANGED probeVars
    /\ UNCHANGED sideVars
    /\ UNCHANGED deepResearch

(* ----------------------- main: after the download ---------------------- *)

\* Faulty variant of CloseDocs: --no-kindle is not looked at.
CloseDocsAlwaysDelivers ==
    /\ pc = "closeDocs"
    /\ docsClosed' = TRUE
    /\ pc' = "deliver"
    /\ UNCHANGED << stageLog, err, now, sig, docsPage, resolvedAt, mainVars,
                    feedVars, pollVars, cascVars, deliverVars >>
    /\ UNCHANGED resolveVars
    /\ UNCHANGED probeVars
    /\ UNCHANGED sideVars
    /\ UNCHANGED deepResearch

\* await docsPage.close(); then sendToKindle unless --no-kindle
CloseDocs ==
    /\ pc = "closeDocs"
    /\ docsClosed' = TRUE
    /\ pc' = IF skipKindle THEN "finally" ELSE "deliver"
    /\ UNCHANGED << stageLog, err, now, sig, docsPage, resolvedAt, mainVars,
                    feedVars,
                    pollVars, cascVars >>
    /\ UNCHANGED deliverVars
    /\ UNCHANGED resolveVars
    /\ UNCHANGED probeVars
    /\ UNCHANGED sideVars
    /\ UNCHANGED deepResearch

\* Faulty variant of ConfirmationMissing: the rejected wait reaches main.
ConfirmationMissingThrows == Throw("TimeoutError", "deliver", "confirmation")

\* catch { logSub("Confirmacao nao detectada, mas comando executado.") }
ConfirmationMissing == pc' = "finally" /\ UNCHANGED err

\* sendToKindle: the navigation, the upload control with its file chooser, or
\* the send control may reject; otherwise the send control is clicked, once,
\* and the success text is waited for inside a try block of its own.
\*   step: the await that rejects, or how the wait for the success text ends
SendToKindle ==
    /\ pc = "deliver"
    /\ Enter("deliver")
    /\ \E step \in { "goto", "upload", "send", "confirmed", "unconfirmed" } :
         IF step \in { "confirmed", "unconfirmed" }
           THEN /\ acts' = [acts EXCEPT !.send = @ + 1]
                /\ delivery' = step
                /\ IF step = "confirmed"
                     THEN pc' = "finally" /\ UNCHANGED err
                     ELSE ConfirmationMissing
           ELSE /\ Throw("TimeoutError", "deliver", step)
                /\ UNCHANGED << acts, delivery >>
    /\ UNCHANGED << argVars, exitCode, launched, closeCalls, modelSet >>
    /\ UNCHANGED << feedVars, pollVars, cascVars, exportVars >>
    /\ UNCHANGED << downloads, epubPath >>
    /\ UNCHANGED resolveVars
    /\ UNCHANGED probeVars
    /\ UNCHANGED sideVars
    /\ UNCHANGED deepResearch

\* Faulty variant of MainCatch: the error is logged and the run goes on to the
\* normal end instead of exiting with status 1.
MainCatchSwallows ==
    /\ pc = "catch"
    /\ pc' = "finally"
    /\ UNCHANGED << mode, skipKindle, launched, closeCalls, exitCode, modelSet,
                    acts >>
    /\ UNCHANGED << stageLog, err, now, feedVars, pollVars, cascVars, exportVars >>
    /\ UNCHANGED deliverVars
    /\ UNCHANGED resolveVars
    /\ UNCHANGED probeVars
    /\ UNCHANGED sideVars
    /\ UNCHANGED deepResearch

\* catch (err) { log; screenshot; console.error(err); process.exit(1); }
\* process.exit ends the process at once: the finally clause is not run.
MainCatch ==
    /\ pc = "catch"
    /\ exitCode' = 1
    /\ pc' = "done"
    /\ UNCHANGED << mode, skipKindle, launched, closeCalls, modelSet, acts >>
    /\ UNCHANGED << stageLog, err, now, feedVars, pollVars, cascVars, exportVars >>
    /\ UNCHANGED deliverVars
    /\ UNCHANGED resolveVars
    /\ UNCHANGED probeVars
    /\ UNCHANGED sideVars
    /\ UNCHANGED deepResearch

\* Faulty variant of MainFinally: the send-only branch lacks its `return`, so
\* main goes on into the full pipeline.
MainFinallyFallsThrough ==
    /\ pc = "finally"
    /\ closeCalls' = closeCalls + 1
    /\ IF mode = "sendOnly"
         THEN pc' = "navigate" /\ UNCHANGED exitCode
         ELSE pc' = "done" /\ exitCode' = 0
    /\ UNCHANGED << mode, skipKindle, launched, modelSet, acts >>
    /\ UNCHANGED << stageLog, err, now, feedVars, pollVars, cascVars, exportVars >>
    /\ UNCHANGED deliverVars
    /\ UNCHANGED resolveVars
    /\ UNCHANGED probeVars
    /\ UNCHANGED sideVars
    /\ UNCHANGED deepResearch

\* finally { await context.close(); } after the try block completed
MainFinally ==
    /\ pc = "finally"
    /\ closeCalls' = closeCalls + 1
    /\ exitCode' = 0
    /\ pc' = "done"
    /\ UNCHANGED << mode, skipKindle, launched, modelSet, acts >>
    /\ UNCHANGED << stageLog, err, now, feedVars, pollVars, cascVars, exportVars >>
    /\ UNCHANGED deliverVars
    /\ UNCHANGED resolveVars
    /\ UNCHANGED probeVars
    /\ UNCHANGED sideVars
    /\ UNCHANGED deepResearch

Next ==
    \/ LaunchBrowser
    \/ OpenExisting
    \/ NavigateToGemini
    \/ SelectModel
    \/ EnableDeepResearch
    \/ SubmitQuery
    \/ ConfirmEnter
    \/ ConfirmProbe
    \/ ConfirmLoose
    \/ ConfirmGiveUp
    \/ PollEnter
    \/ Phase1Cycle
    \/ Phase2Init
    \/ Phase2Cycle
    \/ ExportOpen
    \/ ExportCycle
    \/ ExportToast
    \/ ExportLoad
    \/ DownloadMenu
    \/ DownloadSelector
    \/ DownloadText
    \/ DownloadEpub
    \/ OtherProgramSaves
    \/ CloseDocs
    \/ SendToKindle
    \/ MainCatch
    \/ MainFinally

Spec == Init /\ [][Next]_vars

\* The resolution of --model on its own: any argument, then
\* `const model = resolveModel(modelArg)`.
ResolveInit ==
    /\ RunInit
    /\ modelArg \in ModelArgs \cup { Absent }
    /\ model = Unresolved
    /\ remote = BlankRemote
    /\ probed = << >>
    /\ SideIdle

ResolveModelStep ==
    /\ model = Unresolved
    /\ model' = resolveModel(modelArg)
    /\ UNCHANGED << modelArg, pc, stageLog, err, now, mainVars, feedVars,
                    pollVars, cascVars, exportVars, deliverVars >>
    /\ UNCHANGED probeVars
    /\ UNCHANGED sideVars
    /\ UNCHANGED deepResearch

ResolveNext == ResolveModelStep

ResolveSpec == ResolveInit /\ [][ResolveNext]_vars

(* ------------------ pollForCompletion: the probes alone ----------------- *)

\* chip ? chip.innerText.trim() : ""
ChipStatus(page) == IF page.chip.present THEN page.chip.text ELSE ""

\* await indicators.isVisible()
IndicatorVisible(page) == page.indicator

\* container ? (container.innerText || "").trim().length : 0
ReportLength(page) ==
    IF page.container.present THEN page.container.length ELSE 0

\* Faulty variant of AfterProbe: the probe acts on the page, which answers by
\* showing activity.
AfterProbeActed(page) == [page EXCEPT !.indicator = TRUE]

\* The page after page.evaluate(() => querySelector(...)...) or isVisible():
\* the callbacks only read.
AfterProbe(page) == page

\* One probe is evaluated and its result noted.
Probe(kind, value) ==
    /\ probed' = Append(probed, [probe |-> kind, value |-> value])
    /\ remote' = AfterProbe(remote)
    /\ UNCHANGED << runVars, resolveVars, sideVars >>

ProbeChip ==
    /\ Len(probed) < MaxProbes
    /\ Probe("chip", ChipStatus(remote))

ProbeIndicator ==
    /\ Len(probed) < MaxProbes
    /\ Probe("indicator", IndicatorVisible(remote))

ProbeLength ==
    /\ Len(probed) < MaxProbes
    /\ Probe("length", ReportLength(remote))

\* await sleep(...): meanwhile the page changes.
PollSleep ==
    /\ remote' \in Remotes \ { remote }
    /\ probed' = << >>
    /\ UNCHANGED << runVars, resolveVars, sideVars >>

ProbeInit ==
    /\ RunInit
    /\ modelArg = Absent
    /\ model = resolveModel(Absent)
    /\ remote = BlankRemote
    /\ probed = << >>
    /\ SideIdle

ProbeNext ==
    \/ ProbeChip
    \/ ProbeIndicator
    \/ ProbeLength
    \/ PollSleep

ProbeSpec == ProbeInit /\ [][ProbeNext]_vars

(* ------------------------ findRecentEpub on its own --------------------- *)

\* Directory contents of the scan: every sampled name is absent or there with
\* one of the sampled modification times.
ScanDirs ==
    LET names == EpubNames \cup OtherNames
        Pick == [names -> (0 .. MaxMtime) \cup { -1 }]
    IN  { { File(n, p[n], "before") : n \in { m \in names : p[m] # -1 } } :
            p \in Pick }

ScanInit ==
    /\ RunInit
    /\ modelArg = Absent
    /\ model = resolveModel(Absent)
    /\ remote = BlankRemote
    /\ probed = << >>
    /\ chipText = NoSample
    /\ doneTest = "untested"
    /\ scanDir \in ScanDirs
    /\ afterTime \in 0 .. MaxMtime
    /\ recentEpub = [scan |-> "none", file |-> NullFile]
    /\ wait = NoWait
    /\ argv = NoArgv
    /\ legacy = NoLegacy

\* try { readdirSync ... statSync ... return files[0] or null }
\* catch { return null }
ScanStep ==
    /\ recentEpub.scan = "none"
    /\ \E scanned \in BOOLEAN :
         recentEpub' =
            IF scanned
              THEN [scan |-> "ok", file |-> findRecentEpub(scanDir, afterTime)]
              ELSE [scan |-> "failed", file |-> NullFile]
    /\ UNCHANGED << chipText, doneTest, scanDir, afterTime, wait, argv, legacy >>
    /\ UNCHANGED << runVars, resolveVars, probeVars >>

ScanNext == ScanStep

ScanSpec == ScanInit /\ [][ScanNext]_vars

(* ----------------- clicks and the events they cause -------------------- *)

\* Faulty variant of WaitFirst: the download is waited for only after the
\* click on the EPUB option has returned.
WaitFirstButDownload(site) == site # "download"

\* The wait is armed before the click is issued:
\*   const downloadPromise = docsPage.waitForEvent("download", ...);
\*   await epubOption.click();
\*   await Promise.all([page.waitForEvent("filechooser", ...), uploadBtn.click()])
\*   await Promise.all([context.waitForEvent("page", ...), openDocBtn.click()])
\* (the elements of an array literal are evaluated left to right).
WaitFirst(site) == site \in WaitSites

ArmInit ==
    /\ RunInit
    /\ modelArg = Absent
    /\ model = resolveModel(Absent)
    /\ remote = BlankRemote
    /\ probed = << >>
    /\ chipText = NoSample
    /\ doneTest = "untested"
    /\ scanDir = { }
    /\ afterTime = 0
    /\ recentEpub = [scan |-> "none", file |-> NullFile]
    /\ \E site \in WaitSites : wait = Wait(site, "start", FALSE, "never", FALSE)
    /\ argv = NoArgv
    /\ legacy = NoLegacy

ArmIdle ==
    /\ UNCHANGED << chipText, doneTest, scanDir, afterTime, recentEpub, argv,
                    legacy >>
    /\ UNCHANGED << runVars, resolveVars, probeVars >>

\* waitForEvent(...) is called: the listener is registered.
ArmWait ==
    /\ ~wait.armed
    /\ wait.at = (IF WaitFirst(wait.site) THEN "start" ELSE "clickDone")
    /\ wait' = [wait EXCEPT !.armed = TRUE,
                            !.at = IF WaitFirst(wait.site) THEN "armed"
                                                           ELSE "awaiting"]
    /\ ArmIdle

\* click() is called.
IssueClick ==
    /\ wait.at = (IF WaitFirst(wait.site) THEN "armed" ELSE "start")
    /\ wait' = [wait EXCEPT !.at = "clickIssued"]
    /\ ArmIdle

\* The click resolves or rejects.
ClickSettles ==
    /\ wait.at = "clickIssued"
    /\ \E ok \in BOOLEAN :
         wait' = [wait EXCEPT !.at = IF ~ok THEN "clickFailed"
                                     ELSE IF wait.armed THEN "awaiting"
                                     ELSE "clickDone"]
    /\ ArmIdle

\* The browser raises the event the click causes, at any moment from the
\* issue of the click on; it reaches the listener if one is registered.
EventFires ==
    /\ wait.firedAt = "never"
    /\ wait.at \in { "clickIssued", "clickDone", "clickFailed", "awaiting" }
    /\ wait' = [wait EXCEPT !.firedAt = wait.at, !.observed = wait.armed]
    /\ ArmIdle

\* The promise of waitForEvent resolves with the event.
AwaitResolves ==
    /\ wait.at = "awaiting"
    /\ wait.observed
    /\ wait' = [wait EXCEPT !.at = "resolved"]
    /\ ArmIdle

\* The timeout of waitForEvent passes with no event seen.
AwaitTimesOut ==
    /\ wait.at = "awaiting"
    /\ ~wait.observed
    /\ wait' = [wait EXCEPT !.at = "timedOut"]
    /\ ArmIdle

ArmNext ==
    \/ ArmWait
    \/ IssueClick
    \/ ClickSettles
    \/ EventFires
    \/ AwaitResolves
    \/ AwaitTimesOut

ArmSpec == ArmInit /\ [][ArmNext]_vars

(* ------------------- main: the command line, then launch --------------- *)

\* Faulty variant of Route: the send-only branch does not look at its
\* argument.
RouteUnchecked(a) ==
    IF ~("--login-only" \in a.flags) /\ ~("--send-only" \in a.flags)
         /\ a.query = << >>
      THEN "help"
    ELSE IF "--login-only" \in a.flags THEN "login"
    ELSE IF "--send-only" \in a.flags THEN "sendOnly"
    ELSE "full"

\* if (!loginOnly && !sendOnly && !query) help;  if (loginOnly) ...;
\* if (sendOnly) { if (!geminiUrl || !geminiUrl.includes("gemini.google.com"))
\* process.exit(1); ... }  otherwise the full flow.
Route(a) ==
    IF ~("--login-only" \in a.flags) /\ ~("--send-only" \in a.flags)
         /\ a.query = << >>
      THEN "help"
    ELSE IF "--login-only" \in a.flags THEN "login"
    ELSE IF "--send-only" \in a.flags
      THEN IF a.query = << >> \/ ~Includes(a.query, "gemini.google.com")
             THEN "rejected" ELSE "sendOnly"
    ELSE "full"

ArgInit ==
    /\ RunInit
    /\ modelArg = Absent
    /\ model = resolveModel(Absent)
    /\ remote = BlankRemote
    /\ probed = << >>
    /\ chipText = NoSample
    /\ doneTest = "untested"
    /\ scanDir = { }
    /\ afterTime = 0
    /\ recentEpub = [scan |-> "none", file |-> NullFile]
    /\ wait = NoWait
    /\ \E flags \in SUBSET Flags, query \in QuerySamples :
         /\ argv = Argv(flags, query, "unparsed")
         /\ mode = (IF "--send-only" \in flags THEN "sendOnly" ELSE "full")
         /\ skipKindle = ("--no-kindle" \in flags)
    /\ legacy = NoLegacy

ArgRest ==
    UNCHANGED << chipText, doneTest, scanDir, afterTime, recentEpub, wait, legacy >>

\* main reads its arguments and takes a branch; help and a rejected send-only
\* argument end the process there.
ParseArgs ==
    /\ argv.route = "unparsed"
    /\ pc = "launch"
    /\ argv' = [argv EXCEPT !.route = Route(argv)]
    /\ IF Route(argv) = "help"
         THEN pc' = "done" /\ exitCode' = 0
       ELSE IF Route(argv) = "rejected"
         THEN pc' = "done" /\ exitCode' = 1
       ELSE UNCHANGED << pc, exitCode >>
    /\ UNCHANGED << mode, skipKindle, launched, closeCalls, modelSet, acts >>
    /\ UNCHANGED << stageLog, err, now, feedVars, pollVars, cascVars, exportVars >>
    /\ UNCHANGED << deliverVars, resolveVars, probeVars, deepResearch >>
    /\ ArgRest

\* if (loginOnly): the browser is launched and main waits for ever.
LoginOnly ==
    /\ argv.route = "login"
    /\ pc = "launch"
    /\ pc' = "loginOnly"
    /\ launched' = TRUE
    /\ UNCHANGED << mode, skipKindle, exitCode, closeCalls, modelSet, acts >>
    /\ UNCHANGED << stageLog, err, now, feedVars, pollVars, cascVars, exportVars >>
    /\ UNCHANGED << deliverVars, resolveVars, probeVars, deepResearch >>
    /\ UNCHANGED argv
    /\ ArgRest

\* const { context, page } = await launchBrowser(profilePath), in the send-only
\* branch and in the full flow
LaunchAfterParse ==
    /\ argv.route \in { "sendOnly", "full" }
    /\ LaunchBrowser

\* The first navigation of the send-only branch.
OpenAfterLaunch ==
    /\ argv.route = "sendOnly"
    /\ OpenExisting

\* The first navigation of the full flow.
NavigateAfterLaunch ==
    /\ argv.route = "full"
    /\ NavigateToGemini

ArgNext ==
    \/ ParseArgs
    \/ LoginOnly
    \/ LaunchAfterParse
    \/ OpenAfterLaunch
    \/ NavigateAfterLaunch

ArgSpec == ArgInit /\ [][ArgNext]_vars

(* ------------- legacy variants: extraction, file and e-mail ------------ *)

\* Faulty variant of TooShort: only an empty content is refused.
TooShortOnlyEmpty(t) == t.raw = 0

\* if (!researchContent || researchContent.trim().length < 100)
TooShort(t) == t.raw = 0 \/ TrimLen(t) < MIN_CONTENT_LENGTH

\* if (!content || content.trim().length < 200): the DOM text is not enough
\* and the clipboard is tried
DomInsufficient(t) == t.raw = 0 \/ TrimLen(t) < DOM_MIN_LENGTH

\* if (clipboard.trim().length > 100) return clipboard
ClipboardTaken(t) == TrimLen(t) > CLIPBOARD_MIN_LENGTH

LegacyInit ==
    /\ RunInit
    /\ modelArg = Absent
    /\ model = resolveModel(Absent)
    /\ remote = BlankRemote
    /\ probed = << >>
    /\ chipText = NoSample
    /\ doneTest = "untested"
    /\ scanDir = { }
    /\ afterTime = 0
    /\ recentEpub = [scan |-> "none", file |-> NullFile]
    /\ wait = NoWait
    /\ argv = NoArgv
    /\ mode = "full"
    /\ \E v \in LegacyVariants, d \in SampleTexts, c \in SampleTexts,
          b \in BOOLEAN :
         legacy = [NoLegacy EXCEPT !.variant = v, !.dom = d,
                                   !.clip = IF v = "test" \/ ~b THEN NoText ELSE c,
                                   !.copy = v # "test" /\ b]

LegacyRest ==
    /\ UNCHANGED << chipText, doneTest, scanDir, afterTime, recentEpub, wait,
                    argv >>
    /\ UNCHANGED << runVars, resolveVars, probeVars >>

\* The process ends with a failure: throw and process.exit(1) in catch, or
\* process.exit(1) on the spot in the test script.
LegacyFails == [legacy EXCEPT !.at = "done", !.exit = 1]

\* extractResponseContent: the DOM strategies return trimmed text; in the two
\* pipelines a text under 200 characters sends the function to
\* copyViaClipboard, which returns the clipboard as it is or throws.  The test
\* script takes what the DOM gave.
LegacyExtract ==
    /\ legacy.variant # "none"
    /\ legacy.at = "extract"
    /\ legacy' =
          IF legacy.variant = "test" \/ ~DomInsufficient(Trim(legacy.dom))
            THEN [legacy EXCEPT !.at = "check", !.content = Trim(legacy.dom)]
          ELSE IF legacy.copy /\ ClipboardTaken(legacy.clip)
            THEN [legacy EXCEPT !.at = "check", !.content = legacy.clip]
          ELSE LegacyFails
    /\ LegacyRest

\* main tests the content before anything is written.
LegacyCheck ==
    /\ legacy.at = "check"
    /\ legacy' = IF TooShort(legacy.content)
                   THEN LegacyFails
                   ELSE [legacy EXCEPT !.at = "save"]
    /\ LegacyRest

\* saveHtml / saveHtmlFile / writeFileSync(filepath, html)
LegacySave ==
    /\ legacy.at = "save"
    /\ legacy' = [legacy EXCEPT !.written = TRUE, !.at = "send"]
    /\ LegacyRest

\* sendViaGmailWeb, unless --no-kindle (the test script always sends); its
\* waits may reject, which ends the run with status 1.
LegacySend ==
    /\ legacy.at = "send"
    /\ \E ok \in BOOLEAN :
         legacy' =
           IF legacy.variant # "test" /\ skipKindle
             THEN [legacy EXCEPT !.at = "done", !.exit = 0]
           ELSE IF ok
             THEN [legacy EXCEPT !.at = "done", !.exit = 0, !.sent = TRUE]
           ELSE LegacyFails
    /\ LegacyRest

LegacyNext ==
    \/ LegacyExtract
    \/ LegacyCheck
    \/ LegacySave
    \/ LegacySend

LegacySpec == LegacyInit /\ [][LegacyNext]_vars

(* --------------------- the done pattern on its own --------------------- *)

MatchInit ==
    /\ RunInit
    /\ modelArg = Absent
    /\ model = resolveModel(Absent)
    /\ remote = BlankRemote
    /\ probed = << >>
    /\ chipText \in StatusSamples
    /\ doneTest = "untested"
    /\ scanDir = { }
    /\ afterTime = 0
    /\ recentEpub = [scan |-> "none", file |-> [name |-> "null", mtime |-> -1, by |-> "none"]]
    /\ wait = NoWait
    /\ argv = NoArgv
    /\ legacy = NoLegacy

\* if (/Conclu[íi]do|Completed/i.test(chipStatus))
DoneTestStep ==
    /\ doneTest = "untested"
    /\ doneTest' = IF RegexTest(TextOf(chipText)) THEN "done" ELSE "notDone"
    /\ UNCHANGED << chipText, scanDir, afterTime, recentEpub, wait, argv, legacy >>
    /\ UNCHANGED << runVars, resolveVars, probeVars >>

MatchNext == DoneTestStep

MatchSpec == MatchInit /\ [][MatchNext]_vars

\* main is a single chain of awaits on timers and browser calls that all carry
\* a timeout, so a step that can be taken is eventually taken.
FairSpec == Spec /\ WF_vars(Next)

(* ------------------------------ properties ----------------------------- *)

Ended == pc = "done"

Entered(stage) == \E i \in 1 .. Len(stageLog) : stageLog[i] = stage

LastEntered == IF stageLog = << >> THEN "none" ELSE stageLog[Len(stageLog)]

\* C1 (as claimed): in the full pipeline and in send-only mode, whenever the
\* process has ended after the browser session was launched, normally or by a
\* fatal stage failure, context.close() has been attempted.
C1_TeardownOnEveryOutcome == (Ended /\ launched) => closeCalls >= 1

\* C2 (as claimed): once pollForCompletion has returned false (TimedOut), no
\* export, download or delivery stage is entered and the process ends with a
\* non-zero status.
C2_TimedOutHaltsPipeline ==
    pollResult = "false" =>
        /\ ~Entered("export")
        /\ ~Entered("download")
        /\ ~Entered("deliver")
        /\ Ended => exitCode # 0

\* C3: a fatal failure raised by the submit, export, download or delivery
\* stage aborts the pipeline: the failing stage is the last stage entered,
\* control is in the catch clause or the process has ended, and it ends with
\* status 1.
C3_FatalStageAborts ==
    \A s \in { "submit", "export", "download", "deliver" } :
        err.stage = s =>
            /\ LastEntered = s
            /\ pc \in { "catch", "done" }
            /\ Ended => exitCode = 1

\* C3 witness: the download stage failed and the process has ended.
C3_Witness == Ended /\ err.stage = "download" /\ exitCode = 1

\* The export stage is over: it returned the surface or threw.
ExportOver == Entered("export") /\ pc \notin { "exportWait", "exportToast" }

CascadeRunning == pc \in { "confirmLoop", "downloadCascade" }

AllHidden(n) ==
    /\ Len(evalLog) = n
    /\ \A i \in 1 .. n : evalLog[i].probe = "hidden"

\* C6 (as claimed): when every candidate of a cascade yielded nothing (the
\* download-menu selectors and the text match; the three export signals), the
\* error raised is of the one kind NoStrategySucceeded.
C6_SingleErrorKind ==
    (\/ err.stage = "download" /\ err.step = "cascade" /\ AllHidden(TextRank)
     \/ err.stage = "export" /\ err.step = "toast" /\ sig = NoSig)
        => err.kind = "NoStrategySucceeded"

\* The poller has returned and its readings are still at hand.
PollReturned == returnedAt # -1

Polling == pc \in { "phase1", "phase2init", "phase2" }

\* C7: against the ramp feed (in progress before RampAt, completed from RampAt
\* on; times in feed time), entered at any sampled alignment up to RampAt, the
\* poller has not overrun RampAt + pollInterval while polling, and it returns
\* Completed at a feed time T with
\* RampAt + settle <= T <= RampAt + pollInterval + settle.
C7_RampCompletionWindow ==
    feedKind = "ramp" =>
        /\ Polling => feedOffset + now < RampAt + POLL_INTERVAL_MS
        /\ PollReturned =>
              /\ pollResult = "true"
              /\ phase = "Completed"
              /\ feedOffset + returnedAt >= RampAt + SETTLE_DELAY_MS
              /\ feedOffset + returnedAt
                    <= RampAt + POLL_INTERVAL_MS + SETTLE_DELAY_MS

\* C7 witness: the latest alignment, one millisecond short of a whole poll
\* interval, has returned Completed.
C7_Witness ==
    /\ feedKind = "ramp"
    /\ feedOffset = POLL_INTERVAL_MS - 1
    /\ PollReturned
    /\ pollResult = "true"

\* C8: against the silent feed (no status, no activity indicator, container
\* never above 500 characters) the poller never completes, is never past the
\* hard ceiling while polling, and reaches TimedOut exactly at the ceiling.
C8_SilentTimesOutAtCeiling ==
    feedKind = "silent" =>
        /\ phase # "Completed"
        /\ Polling => (now <= MAX_POLL_TIME_MS /\ phase # "TimedOut")
        /\ phase = "TimedOut" => (pollResult = "false" /\ returnedAt = MAX_POLL_TIME_MS)
        /\ PollReturned => phase = "TimedOut"

\* C8 witness: the silent feed has driven the poller to TimedOut.
C8_Witness ==
    /\ feedKind = "silent"
    /\ phase = "TimedOut"
    /\ returnedAt = MAX_POLL_TIME_MS
    /\ ~researchStarted

\* C9 (as claimed): whenever the poller has reported success, the settle delay
\* lies between the detecting cycle and the return.
C9_SettleOnEverySuccess ==
    (PollReturned /\ pollResult = "true") =>
        returnedAt - detectedAt = SETTLE_DELAY_MS

C11_StatusRuleDecidesFirst ==
    cycle # NoCycle =>
        /\ cycle.both =>
              /\ ~cycle.lenRead
              /\ phase = "Completed"
              /\ doneBy = "status"
        /\ cycle.lenRead => cycle.status = ""
        /\ doneBy = "length" => (cycle.lenRead /\ ~IsDone(cycle.status))

\* C11 witness: both conditions held in a cycle that ran after the dwell, when
\* the length rule was eligible, and the poller returned by the status rule.
C11_Witness ==
    /\ cycle.both
    /\ detectedAt >= minWaitUntil
    /\ doneBy = "status"
    /\ pollResult = "true"

\* C12: when the discovery window has elapsed with no status and no activity
\* indicator observed, the poller neither fails nor returns there: it enters
\* Started at that moment and polls for completion, so a poller that has
\* returned has always been through Started.
C12_DiscoveryTimeoutStartsAnyway ==
    /\ (pc = "phase2init" /\ ~researchStarted) =>
          /\ now >= PHASE1_WINDOW_MS
          /\ phase = "NotStarted"
          /\ pollResult = "none"
          /\ ~PollReturned
    /\ pc = "phase2" => (phase = "Started" /\ startedAt # -1)
    /\ PollReturned =>
          /\ startedAt # -1
          /\ ~researchStarted => startedAt = PHASE1_WINDOW_MS
    /\ LastEntered = "poll" => err = NoErr

\* C12 witness: nothing was observed during the discovery window, and the
\* poller went on to detect completion afterwards.
C12_Witness ==
    /\ PollReturned
    /\ ~researchStarted
    /\ startedAt = PHASE1_WINDOW_MS
    /\ phase = "Completed"

\* What C13 asks of every state: the poller is never still polling later than
\* one poll interval past the hard ceiling, it returns only in Completed or
\* TimedOut (false exactly when TimedOut) and no later than hard ceiling +
\* poll interval + settle delay after it started, and once it is in a terminal
\* phase it is not polling and is not entered again.
PollerBounded ==
    /\ Polling => now < MAX_POLL_TIME_MS + POLL_INTERVAL_MS
    /\ PollReturned =>
          /\ phase \in { "Completed", "TimedOut" }
          /\ (phase = "TimedOut") <=> (pollResult = "false")
          /\ returnedAt <= MAX_POLL_TIME_MS + POLL_INTERVAL_MS + SETTLE_DELAY_MS
    /\ phase \in { "Completed", "TimedOut" } =>
          /\ ~Polling
          /\ pc # "poll"
          /\ Cardinality({ i \in 1 .. Len(stageLog) : stageLog[i] = "poll" }) = 1

\* C13: for every status feed pollForCompletion terminates, in Completed or
\* TimedOut, no later than hard ceiling + poll interval + settle delay after it
\* started, and TimedOut is terminal: the phase never leaves it and the poller
\* is not run again.
C13_PollerTerminatesInTime ==
    /\ []PollerBounded
    /\ [][phase = "TimedOut" => phase' = "TimedOut"]_vars
    /\ (pc = "phase1") ~> PollReturned

\* C13 witness: the poller returned TimedOut from a cycle that began after the
\* hard ceiling had passed.
C13_Witness ==
    /\ PollReturned
    /\ phase = "TimedOut"
    /\ returnedAt > MAX_POLL_TIME_MS

\* C14: confirmResearchStart never raises.  While it runs and until the
\* poller is entered no error is travelling, passes begin every 2 s up to the
\* 60 s bound, and when no control was clicked the function returns, once the
\* 60 s have elapsed, straight into the polling stage.
C14_NoConfirmationIsNotFatal ==
    /\ LastEntered = "confirm" =>
          /\ err = NoErr
          /\ pc \in { "confirmLoop", "poll" }
    /\ pc = "confirmLoop" =>
          /\ now % CONFIRM_RETRY_MS = 0
          /\ now <= CONFIRM_MAX_WAIT_MS
    /\ (LastEntered = "confirm" /\ pc = "poll" /\ confirmClicks = 0) =>
          now >= CONFIRM_MAX_WAIT_MS

\* C14 witness: the 60 s elapsed with no click, the last pass was ended by a
\* probe that threw, and the pipeline stands at the polling stage.
C14_Witness ==
    /\ LastEntered = "confirm"
    /\ pc = "poll"
    /\ confirmClicks = 0
    /\ now = CONFIRM_MAX_WAIT_MS
    /\ \E i \in 1 .. Len(evalLog) : evalLog[i].probe = "throws"

\* C15: against the status sequence "", "Pesquisando", "Concluido", one text
\* per read of the chip, the poller never times out: it is done polling within
\* one poll interval and returns true in Completed by the status rule, having
\* been in NotStarted, Started and Completed in that order.
C15_ScriptedFeedCompletes ==
    feedKind = "script" =>
        /\ phase # "TimedOut"
        /\ Polling => now <= POLL_INTERVAL_MS
        /\ PollReturned =>
              /\ pollResult = "true"
              /\ doneBy = "status"
              /\ phaseTrail = << "NotStarted", "Started", "Completed" >>

\* C15 witness: the scripted feed was read three times, the second read in
\* phase 1, and the poller has returned.
C15_Witness ==
    /\ feedKind = "script"
    /\ feedIdx = Len(Script)
    /\ startedAt = PHASE1_SLEEP_MS
    /\ PollReturned
    /\ phase = "Completed"

\* The stage functions in the order main calls them; openExisting is the
\* navigation of the send-only mode, selectModel and enableDeepResearch are
\* the two steps of configuring the task.
MainOrder ==
    << "launch", "openExisting", "navigate", "selectModel",
       "enableDeepResearch", "submit", "confirm", "poll", "export", "download",
       "deliver" >>

StageRank(stage) == CHOOSE i \in 1 .. Len(MainOrder) : MainOrder[i] = stage

\* The stage whose function main's position lies inside.
StageOfPc ==
    CASE pc = "confirmLoop" -> "confirm"
      [] pc \in { "phase1", "phase2init", "phase2" } -> "poll"
      [] pc \in { "exportWait", "exportToast", "exportLoad" } -> "export"
      [] pc \in { "downloadCascade", "downloadEpub" } -> "download"
      [] OTHER -> "none"

\* The stages entered so far are in the fixed order, none twice, and a
\* position inside a stage function belongs to the stage entered last.
StagesOrdered ==
    /\ \A i \in 1 .. Len(stageLog) :
          \E k \in 1 .. Len(MainOrder) : MainOrder[k] = stageLog[i]
    /\ \A i, j \in 1 .. Len(stageLog) :
          i < j => StageRank(stageLog[i]) < StageRank(stageLog[j])
    /\ StageOfPc # "none" => LastEntered = StageOfPc

\* C16: the run is in one stage at a time and stages advance strictly in the
\* fixed order launch, navigate, configure, submit, confirm, poll, export,
\* download, deliver: no stage is entered twice or out of order, and a stage
\* is entered only from the position at which the previous one returned.
C16_StagesStrictlyOrdered ==
    /\ []StagesOrdered
    /\ [][stageLog' # stageLog =>
            /\ stageLog' = Append(stageLog, pc)
            /\ StageOfPc = "none"]_vars

\* C16 witness: a full run has been through all its stages and ended.
C16_Witness ==
    /\ Ended
    /\ exitCode = 0
    /\ stageLog = << "launch", "navigate", "selectModel", "enableDeepResearch",
                     "submit", "confirm", "poll", "export", "download",
                     "deliver" >>

\* C17: a run is one attempt.  The query is submitted at most once, the
\* export control and the send control are each clicked at most once, each
\* only inside its own stage, and a stage that failed is never run again: no
\* stage is entered a second time and none is entered after a failure.
C17_SingleAttempt ==
    /\ acts.submit <= 1 /\ acts.export <= 1 /\ acts.send <= 1
    /\ acts.submit = 1 => Entered("submit")
    /\ acts.export = 1 => Entered("export")
    /\ acts.send = 1 => Entered("deliver")
    /\ \A i, j \in 1 .. Len(stageLog) : i # j => stageLog[i] # stageLog[j]
    /\ err # NoErr =>
          /\ LastEntered = err.stage
          /\ pc \in { "catch", "done" }

\* C17 witness: a run has submitted, exported and sent, once each, and ended.
C17_Witness ==
    /\ Ended
    /\ acts = [submit |-> 1, export |-> 1, send |-> 1]

\* C18: a failure inside selectModel never aborts the pipeline.  No error
\* ever carries that stage; from its entry until the submit stage is entered
\* the run is on its way there with no error travelling; and a query that was
\* submitted in the full pipeline went out after selectModel had returned,
\* with the selected model or the remote default.
C18_ModelSelectionNeverAborts ==
    /\ err.stage # "selectModel"
    /\ (Entered("selectModel") /\ ~Entered("submit")) =>
          /\ err = NoErr
          /\ pc \in { "enableDeepResearch", "submit" }
          /\ modelSet \in { "selected", "default" }
    /\ modelSet # "none" => Entered("selectModel")
    /\ acts.submit = 1 => modelSet \in { "selected", "default" }

\* C18 witness: model selection failed and the query was submitted all the
\* same.
C18_Witness ==
    /\ modelSet = "default"
    /\ acts.submit = 1
    /\ err = NoErr

\* C19 (as claimed): when the process has ended, an exported-document page
\* that the export stage adopted or created has been closed by main, whether
\* the later stages succeeded or the download stage failed.
C19_SecondarySurfaceClosed ==
    (Ended /\ docsPage # "none" /\ (err = NoErr \/ err.stage = "download")) =>
        docsClosed

Handed == CHOOSE f \in downloads : f.name = epubPath

C22_MissingConfirmationIsNotFatal ==
    delivery = "unconfirmed" =>
        /\ acts.send = 1
        /\ err = NoErr
        /\ pc \in { "finally", "done" }
        /\ Ended => (exitCode = 0 /\ closeCalls = 1)

\* C22 witness: the send control was clicked, no confirmation showed, and the
\* run has ended successfully.
C22_Witness ==
    /\ Ended
    /\ delivery = "unconfirmed"
    /\ acts.send = 1
    /\ exitCode = 0

\* C23: with --no-kindle, in the full pipeline and in send-only mode alike,
\* the delivery stage is never entered and the send control never clicked,
\* while a run that ends normally has been through the export and the
\* download and holds the saved EPUB.
C23_NoKindleSkipsOnlyDelivery ==
    skipKindle =>
        /\ ~Entered("deliver")
        /\ pc # "deliver"
        /\ acts.send = 0
        /\ delivery = "none"
        /\ (Ended /\ exitCode = 0) =>
              /\ Entered("export")
              /\ Entered("download")
              /\ acts.export = 1
              /\ epubPath # "none"

\* C23 witness: a full-pipeline run with --no-kindle has exported, downloaded
\* and ended normally.
C23_Witness ==
    /\ skipKindle
    /\ mode = "full"
    /\ Ended
    /\ exitCode = 0
    /\ LastEntered = "download"

\* The stages of the send-only mode, in order.
SendOnlyOrder == << "launch", "openExisting", "export", "download", "deliver" >>

\* C24: in send-only mode the stages entered are, in this order, the launch,
\* the navigation to the given URL, the export, the download and the delivery
\* (a run may stop short of the later ones); model selection, query
\* submission, confirmation and the poller never run.
C24_SendOnlyRunsExportPath ==
    mode = "sendOnly" =>
        /\ Len(stageLog) <= Len(SendOnlyOrder)
        /\ stageLog = SubSeq(SendOnlyOrder, 1, Len(stageLog))
        /\ modelSet = "none"
        /\ acts.submit = 0
        /\ confirmClicks = 0
        /\ phaseTrail = << >>
        /\ pollResult = "none"

\* C24 witness: a send-only run has been through export, download and
\* delivery and ended normally.
C24_Witness ==
    /\ mode = "sendOnly"
    /\ Ended
    /\ exitCode = 0
    /\ stageLog = SendOnlyOrder

\* What C25 says resolveModel returns: the Thinking model when --model is
\* absent or its value is no key or alias, else the model the key or alias
\* names, whatever the casing.
NamedModel(arg) ==
    IF arg = Absent \/ arg.lower \notin DOMAIN aliases
      THEN MODELS[2]
      ELSE MODELS[aliases[arg.lower]]

\* C25 (as claimed): resolveModel is total and always returns one of the
\* three models of MODELS, namely the one the argument names or the default.
C25_ResolveModelTotal ==
    model # Unresolved =>
        /\ \E i \in 1 .. Len(MODELS) : model = MODELS[i]
        /\ model = NamedModel(modelArg)

\* Probes of one kind evaluated against the same page gave the same result.
ProbesAgree ==
    \A i, j \in 1 .. Len(probed) :
        probed[i].probe = probed[j].probe => probed[i].value = probed[j].value

C27_LengthRuleOnlyOnEmptyStatus ==
    /\ []((doneBy = "length" /\ cycle # NoCycle) =>
            /\ cycle.status = ""
            /\ cycle.lenRead
            /\ cycle.len > REPORT_MIN_LENGTH)
    /\ [][(pc = "phase2" /\ WithinCeiling(now)) =>
            /\ (cycle'.status # "" /\ ~IsDone(cycle'.status)) =>
                  phase' # "Completed"
            /\ (cycle'.len = REPORT_MIN_LENGTH /\ ~IsDone(cycle'.status)) =>
                  phase' # "Completed"]_vars

\* C27 witness: a cycle read an empty status and a container of 501
\* characters, and the poll completed by the length rule.
C27_Witness ==
    /\ phase = "Completed"
    /\ doneBy = "length"
    /\ cycle.status = ""
    /\ cycle.len = REPORT_MIN_LENGTH + 1

\* A cycle that read an in-progress status over a long container text went on
\* polling.
C27_BusyOverLongText ==
    /\ pc = "phase2"
    /\ cycle.status = InProgressText
    /\ cycle.len > REPORT_MIN_LENGTH
    /\ phase # "Completed"

\* C28: the poller leaves NotStarted in the first cycle of phase 1 that reads a
\* non-empty status or sees an activity indicator, the status being read first,
\* and in every case no later than the discovery window after it started.
\* Cycles that stayed in phase 1 read nothing; a sighting was made inside the
\* window on the 5 s grid and Started is entered at that very clock reading.
C28_LeavesNotStartedOnFirstSignal ==
    /\ [](pc = "phase1" =>
            /\ phase = "NotStarted"
            /\ now <= PHASE1_WINDOW_MS
            /\ sighting # NoSighting =>
                  (sighting.status = "" /\ sighting.indicatorRead
                     /\ ~sighting.indicator))
    /\ [](pc = "phase2init" =>
            /\ phase = "NotStarted"
            /\ now <= PHASE1_WINDOW_MS
            /\ researchStarted <=>
                  (sighting # NoSighting
                     /\ (sighting.status # "" \/ sighting.indicator))
            /\ researchStarted =>
                  (now < PHASE1_WINDOW_MS /\ now % PHASE1_SLEEP_MS = 0)
            /\ (sighting # NoSighting /\ sighting.status # "") =>
                  ~sighting.indicatorRead)
    /\ [][pc = "phase2init" =>
            (phase' = "Started" /\ startedAt' = now /\ now' = now)]_vars
    /\ [](startedAt # -1 => startedAt <= PHASE1_WINDOW_MS)

\* C28 witness: two cycles read nothing, the third saw the activity indicator
\* under an empty status and left the loop at that clock reading.
C28_Witness ==
    /\ pc = "phase2init"
    /\ researchStarted
    /\ sighting = [status |-> "", indicator |-> TRUE, indicatorRead |-> TRUE]
    /\ now = PHASE1_SLEEP_MS + PHASE1_SLEEP_MS

\* The transitions the poller's phase may take.
PhaseMoves ==
    { << "NotStarted", "Started" >>,
      << "Started", "Completed" >>,
      << "Started", "TimedOut" >> }

\* C29: the poller's phase only moves forward, NotStarted -> Started ->
\* Completed or TimedOut.  It never returns to NotStarted, reaches Completed or
\* TimedOut only through Started, and does not leave Completed or TimedOut.
C29_PhaseOnlyMovesForward ==
    /\ [][phase' # phase => << phase, phase' >> \in PhaseMoves]_vars
    /\ [](phaseTrail \in { << >>,
                           << "NotStarted" >>,
                           << "NotStarted", "Started" >>,
                           << "NotStarted", "Started", "Completed" >>,
                           << "NotStarted", "Started", "TimedOut" >> })
    /\ [](phaseTrail # << >> => phase = phaseTrail[Len(phaseTrail)])

\* C29 witness: the poller detected a status that was already done in its
\* first cycle, and still went through Started before Completed; the run has
\* since left the poller and the phase has stayed.
C29_Witness ==
    /\ phaseTrail = << "NotStarted", "Started", "Completed" >>
    /\ startedAt = 0
    /\ detectedAt = 0
    /\ pc = "export"

\* C30: in one invocation of confirmResearchStart at most one click on a
\* confirmation control succeeds, also when a step that follows the click in
\* the same loop iteration throws.
C30_AtMostOneConfirmClick == confirmClicks <= 1

\* C31: a status read is treated as the done signal exactly when it means
\* completed: the synonyms in any letter case are, and no text that does not
\* mean completed is, also when it contains a synonym after a negation or
\* as part of a longer word.
C31_DoneExactlyWhenCompleted ==
    doneTest # "untested" =>
        (doneTest = "done" <=> MeansCompleted(chipText))

\* The names whose extension is .epub in some letter case.
EpubFiles == { "report.epub", "other.epub", "BOOK.EPUB" }

\* The files findRecentEpub is to choose from.
RecentEpubs ==
    { f \in scanDir : f.name \in EpubFiles /\ f.mtime > afterTime }

\* C32: for every directory content and every afterTime, findRecentEpub
\* returns the entry with the greatest modification time among the files
\* whose extension is .epub in any letter case and which were modified
\* strictly after afterTime; it returns null when there is none, or when the
\* scan fails.
C32_FindRecentEpubNewest ==
    /\ recentEpub.scan = "failed" => recentEpub.file = NullFile
    /\ recentEpub.scan = "ok" =>
          IF RecentEpubs = { }
            THEN recentEpub.file = NullFile
            ELSE /\ recentEpub.file \in RecentEpubs
                 /\ \A g \in RecentEpubs : g.mtime <= recentEpub.file.mtime

\* C32 witness: the newest qualifying file has an upper-case extension; next
\* to it are an older .epub, a newer file of another extension, and an .epub
\* modified exactly at afterTime.
C32_Witness ==
    /\ recentEpub.scan = "ok"
    /\ afterTime = 0
    /\ recentEpub.file = File("BOOK.EPUB", 2, "before")
    /\ File("report.epub", 1, "before") \in scanDir
    /\ File("other.epub", 0, "before") \in scanDir
    /\ File("notes.pdf", 2, "before") \in scanDir

\* C33: every wait for an event caused by a click is armed before that click
\* is issued, so the event cannot fire unobserved: no click is in flight or
\* done with its wait unarmed, an event that fired was observed, and a wait
\* times out only when the event never fired.
C33_WaitArmedBeforeClick ==
    /\ wait.at \in { "clickIssued", "clickDone", "clickFailed" } => wait.armed
    /\ wait.firedAt # "never" => wait.observed
    /\ wait.at = "timedOut" => wait.firedAt = "never"

\* C33 witness: the download fired while the click on the EPUB option was
\* still in flight, and the wait armed before the click resolved with it.
C33_Witness ==
    wait = Wait("download", "resolved", TRUE, "clickIssued", TRUE)

\* exportToGoogleDocs has returned a page to main.
ExportReturned == pc = "download"

\* C34: the surface exportToGoogleDocs returns appeared as a result of this
\* run's export action; a document surface that was open in the session before
\* the export button was clicked is never returned.
C34_ExportTargetIsNew ==
    ExportReturned => docsPage \in { "tab", "linkLoaded", "linkUnloaded", "toast" }

\* C35: whenever exportToGoogleDocs returns normally, the surface returned is
\* a loaded document page; a page the stage created to follow an inline link
\* is not returned when its navigation failed.
C35_ExportTargetIsLoaded ==
    ExportReturned => docsPage # "linkUnloaded"

\* C36: in every terminating run, once the session was launched, session
\* teardown (context.close) is invoked exactly once: never zero times and
\* never twice.
C36_TeardownExactlyOnce == (Ended /\ launched) => closeCalls = 1

\* The stages of the full flow, up to the confirmation of the research plan.
ThroughConfirm ==
    << "launch", "navigate", "selectModel", "enableDeepResearch", "submit",
       "confirm" >>

\* C37: a failure to enable Deep Research mode is not fatal.  Whatever went
\* wrong inside it, enableDeepResearch returns normally to the submission of
\* the query, no error of the run comes from it, and the stages that follow
\* are the same as after a success.
C37_DeepResearchFailureIsNotFatal ==
    /\ LastEntered = "enableDeepResearch" =>
          /\ err = NoErr
          /\ pc = "submit"
          /\ deepResearch \in DeepResearchOutcomes
    /\ err # NoErr => err.stage # "enableDeepResearch"
    /\ deepResearch # "none" =>
          /\ Entered("enableDeepResearch")
          /\ Len(stageLog) <= Len(ThroughConfirm)
          /\ stageLog = SubSeq(ThroughConfirm, 1, Len(stageLog))
    /\ (deepResearch # "none" /\ Entered("confirm")) => acts.submit = 1

\* C37 witness: the Deep Research entry could not be resolved; the query was
\* submitted all the same, the confirmation stage is over and the run stands
\* at the poller.
C37_Witness ==
    /\ deepResearch = "entryFailed"
    /\ acts.submit = 1
    /\ pc = "poll"
    /\ err = NoErr

\* The sampled arguments that contain "gemini.google.com".
NamesGemini ==
    { << "https://", "gemini.google.com", "/app/1de4d1cd9d823b42" >>,
      << "see", " ", "gemini.google.com" >> }

\* main was started in send-only mode.
SendOnlyMode ==
    "--send-only" \in argv.flags /\ ~("--login-only" \in argv.flags)

\* C38: in send-only mode, when the argument is missing or does not contain
\* "gemini.google.com", the process ends with a non-zero status before any
\* browser session is launched and without any navigation, export or
\* delivery.
C38_SendOnlyRejectsBadArgument ==
    (SendOnlyMode /\ argv.route # "unparsed" /\ ~(argv.query \in NamesGemini)) =>
        /\ argv.route = "rejected"
        /\ Ended
        /\ exitCode = 1
        /\ ~launched
        /\ stageLog = << >>
        /\ acts = NoActs
        /\ delivery = "none"

\* C38 witness: --send-only was given a document URL, and the process has
\* ended with status 1 without a session.
C38_Witness ==
    /\ SendOnlyMode
    /\ argv.query = << "https://", "docs.google.com", "/document/d/1" >>
    /\ argv.route = "rejected"
    /\ exitCode = 1
    /\ ~launched

\* The run of the legacy variant is past the test of the content.
LegacyChecked == legacy.at \in { "save", "send", "done" }

\* C39: in the legacy variants and the test script, when the extracted content
\* has fewer than 100 characters after trimming, the run fails with a non-zero
\* status and neither writes the HTML file nor sends the e-mail; a file is
\* written and sent only for content of at least 100 trimmed characters.
C39_ShortContentIsRefused ==
    /\ (LegacyChecked /\ TrimLen(legacy.content) < MIN_CONTENT_LENGTH) =>
          /\ legacy.at = "done"
          /\ legacy.exit = 1
          /\ ~legacy.written
          /\ ~legacy.sent
    /\ legacy.written => TrimLen(legacy.content) >= MIN_CONTENT_LENGTH
    /\ legacy.sent => legacy.written

\* C39 witness: the test script extracted 99 characters, and has ended with
\* status 1 with no file and no e-mail.
C39_Witness ==
    /\ legacy.variant = "test"
    /\ legacy.content = Text(MIN_CONTENT_LENGTH - 1, 0)
    /\ legacy.at = "done"
    /\ legacy.exit = 1
    /\ ~legacy.written

\* The test script extracted exactly 100 characters, wrote the file and sent it.
C39_AtThreshold ==
    /\ legacy.variant = "test"
    /\ legacy.content = Text(MIN_CONTENT_LENGTH, 0)
    /\ legacy.sent

=============================================================================
